---------------------------- MODULE Spec2Model ----------------------------
(***************************************************************************)
(* Sync orchestration engine of backend/app/services/sync_service.py:      *)
(* the note upsert (merge) policy, the adaptive delay manager, the stale   *)
(* task reaper and the batch worker of SyncService.                        *)
(*                                                                         *)
(* Conventions.  Python None is None_str for text values and None_int for  *)
(* counters; a None image list is the empty sequence (both are falsy and   *)
(* the code only ever tests truthiness or takes `or []`).  Text stored in  *)
(* the image_list column is a sequence of JSON tokens.  Delays are kept in *)
(* milliseconds, times (heartbeat ages, sleeps) in seconds.                *)
(***************************************************************************)
EXTENDS Integers, Sequences, FiniteSets, TLC

VARIABLES
    notes,        \* the notes table: note_id -> row, or NoRow
    lastSave,     \* the last upsert call: its kind, source, data and the row it found
    nSaves,       \* number of upsert calls made so far in the merge specification
    detailed,     \* the note ids that some upsert wrote from detail data
    dm,           \* the AdaptiveDelayManager: its parameters and its three fields
    lastWait,     \* what the last get_delay / get_rate_limit_wait returned (ms), or -1
    nDelayCalls,  \* number of delay manager calls made in the delay specification
    successRun,   \* current_delay before each of the latest consecutive record_success calls
    accounts,     \* the accounts table: id -> row
    cookie_valid, \* whether the stored cookie is marked valid
    stop_event,   \* SyncService._stop_event
    wk,           \* the sync threads: worker -> its locals and its position
    nBatches,     \* number of sync threads started so far
    nFaults,      \* number of remote calls that went wrong so far
    dlock,        \* AdaptiveDelayManager._lock: the thread that holds it, or NoThread
    dthreads,     \* the threads calling the delay manager: their call and their position
    seqdm,        \* the manager as the calls made so far leave it when run one by one
    coll,         \* a SyncLogCollector: its summary and its issue list
    collCalls,    \* the calls made on the collector so far, in call order
    limits,       \* the run: the most notes a list page holds and the most remote
                  \* calls that go wrong
    media,        \* MediaDownloadQueue and what it works on: the cover file on disk,
                  \* the stats, the cover_local column, the GETs and callbacks made
    mtasks        \* the cover tasks of the queue: task -> its locals and its position

mergeVars == <<notes, lastSave, nSaves, detailed>>
delayVars == <<dm, lastWait, nDelayCalls, successRun>>
syncVars == <<accounts, cookie_valid, stop_event, wk, nBatches, nFaults>>
lockVars == <<dlock, dthreads, seqdm>>
logVars == <<coll, collCalls>>
\* the variables no step of the sync service writes
sideVars == <<lockVars, logVars, limits, media, mtasks>>

-----------------------------------------------------------------------------
(* Values *)

None_str == "None"
None_int == 0 - 1
NoRow == [absent |-> TRUE]

\* Python truthiness of a text value (None and '' are falsy, ' ' is truthy)
Truthy(v) == v # None_str /\ v # ""

\* is_blank of _get_missing_required_fields: None, or a string that strips to ''
is_blank(v) == v = None_str \/ v = "" \/ v = " "

-----------------------------------------------------------------------------
(* json.dumps / json.loads of a list of strings, as token sequences *)

JsonDumps(s) ==
    <<"[">> \o
    [i \in 1..(IF Len(s) = 0 THEN 0 ELSE 2 * Len(s) - 1) |->
        IF i % 2 = 1 THEN s[(i + 1) \div 2] ELSE ","] \o
    <<"]">>

JsonOk(t) ==
    /\ Len(t) >= 2
    /\ t[1] = "["
    /\ t[Len(t)] = "]"
    /\ \/ Len(t) = 2
       \/ /\ Len(t) % 2 = 1
          /\ \A i \in 2..(Len(t) - 1) : (i % 2 = 1) <=> (t[i] = ",")

JsonLoads(t) == [i \in 1..((Len(t) - 1) \div 2) |-> t[2 * i]]

\* old_img_count of the upsert: json.loads(note.image_list) if note.image_list
\* else [], and 0 when the text does not parse
OldImgCount(text) ==
    IF text = <<>> THEN 0
    ELSE IF JsonOk(text) THEN Len(JsonLoads(text)) ELSE 0


-----------------------------------------------------------------------------
(* The upsert of one note: SyncService._save_note *)

\* cover_remote = note_data.get('cover_remote') or note_data.get('video_cover'),
\* else the first image of image_list, else None
CoverRemoteOf(d) ==
    IF Truthy(d.cover_remote) THEN d.cover_remote
    ELSE IF Truthy(d.video_cover) THEN d.video_cover
    ELSE IF Len(d.image_list) > 0 THEN d.image_list[1]
    ELSE None_str

\* `x or ''`
OrEmpty(v) == IF Truthy(v) THEN v ELSE ""

\* `x if x is not None else 0`
OrZero(n) == IF n # None_int THEN n ELSE 0

\* a variant of counter_update that stores whatever comes in
counter_update_Always(stored, incoming) == incoming

\* `if note_data[c] is not None: note.c = note_data[c]` of _save_note
counter_update(stored, incoming) ==
    IF incoming # None_int THEN incoming ELSE stored

\* a variant of image_list_update that takes every non-empty incoming list
image_list_update_AnyList(text, d) ==
    IF Len(d.image_list) > 0 THEN JsonDumps(d.image_list) ELSE text

\* the image list guard of _save_note: the stored text is replaced only by a
\* non-empty list that is longer than the stored one, or when the stored one
\* has at most one image
image_list_update(text, d) ==
    LET old_img_count == OldImgCount(text)
        new_img_count == Len(d.image_list)
    IN IF Len(d.image_list) > 0
          /\ (new_img_count > old_img_count \/ old_img_count <= 1)
       THEN JsonDumps(d.image_list) ELSE text

\* the branch `if note:` of _save_note, the row of an existing note after the update
SaveNoteUpdate(note, d) ==
    LET cover_remote == CoverRemoteOf(d)
    IN [note EXCEPT
          !.nickname = d.nickname,
          !.avatar = d.avatar,
          !.title = d.title,
          !.desc = IF d.desc # None_str /\ d.desc # "" THEN d.desc ELSE @,
          !.type = d.note_type,
          !.liked_count = counter_update(@, d.liked_count),
          !.collected_count = counter_update(@, d.collected_count),
          !.comment_count = counter_update(@, d.comment_count),
          !.share_count = counter_update(@, d.share_count),
          !.upload_time = IF d.upload_time # None_str THEN d.upload_time ELSE @,
          !.video_addr = IF Truthy(d.video_addr) THEN d.video_addr ELSE @,
          !.image_list = image_list_update(@, d),
          !.cover_remote = IF Truthy(cover_remote) THEN cover_remote ELSE @,
          !.xsec_token = IF Truthy(d.xsec_token) THEN d.xsec_token ELSE @]

\* the branch `else:` of _save_note, the row of a new note
SaveNoteInsert(d) ==
    [note_id |-> d.note_id,
     user_id |-> d.user_id,
     nickname |-> d.nickname,
     avatar |-> d.avatar,
     title |-> d.title,
     desc |-> OrEmpty(d.desc),
     type |-> d.note_type,
     liked_count |-> OrZero(d.liked_count),
     collected_count |-> OrZero(d.collected_count),
     comment_count |-> OrZero(d.comment_count),
     share_count |-> OrZero(d.share_count),
     upload_time |-> OrEmpty(d.upload_time),
     video_addr |-> OrEmpty(d.video_addr),
     image_list |-> IF Len(d.image_list) > 0 THEN JsonDumps(d.image_list) ELSE JsonDumps(<<>>),
     cover_remote |-> OrEmpty(CoverRemoteOf(d)),
     cover_local |-> "",
     xsec_token |-> OrEmpty(d.xsec_token)]

\* _save_note: the notes table after the call (a blank note_id is skipped)
_save_note(table, d) ==
    IF ~Truthy(d.note_id) THEN table
    ELSE IF table[d.note_id] # NoRow
         THEN [table EXCEPT ![d.note_id] = SaveNoteUpdate(@, d)]
         ELSE [table EXCEPT ![d.note_id] = SaveNoteInsert(d)]

-----------------------------------------------------------------------------
(* The bulk upsert of fast sync: SyncService._bulk_save_notes *)

\* the update of an existing note inside the loop of _bulk_save_notes
BulkUpdate(note, d) ==
    LET old_img_count == OldImgCount(note.image_list)
        new_img_count == Len(d.image_list)
        cover_remote == CoverRemoteOf(d)
    IN [note EXCEPT
          !.nickname = d.nickname,
          !.avatar = d.avatar,
          !.title = d.title,
          !.desc = IF d.desc # None_str /\ d.desc # "" THEN d.desc ELSE @,
          !.type = d.note_type,
          !.liked_count = IF d.liked_count # None_int THEN d.liked_count ELSE @,
          !.collected_count = IF d.collected_count # None_int THEN d.collected_count ELSE @,
          !.comment_count = IF d.comment_count # None_int THEN d.comment_count ELSE @,
          !.share_count = IF d.share_count # None_int THEN d.share_count ELSE @,
          !.upload_time = IF d.upload_time # None_str THEN d.upload_time ELSE @,
          !.video_addr = IF Truthy(d.video_addr) THEN d.video_addr ELSE @,
          !.image_list =
              IF Len(d.image_list) > 0
                 /\ (new_img_count > old_img_count \/ old_img_count <= 1)
              THEN JsonDumps(d.image_list) ELSE @,
          !.cover_remote = IF Truthy(cover_remote) THEN cover_remote ELSE @,
          !.xsec_token = IF Truthy(d.xsec_token) THEN d.xsec_token ELSE @]

\* the mapping collected for bulk_insert_mappings
BulkInsertMapping(d) ==
    [note_id |-> d.note_id,
     user_id |-> d.user_id,
     nickname |-> d.nickname,
     avatar |-> d.avatar,
     title |-> d.title,
     desc |-> OrEmpty(d.desc),
     type |-> d.note_type,
     liked_count |-> OrZero(d.liked_count),
     collected_count |-> OrZero(d.collected_count),
     comment_count |-> OrZero(d.comment_count),
     share_count |-> OrZero(d.share_count),
     upload_time |-> OrEmpty(d.upload_time),
     video_addr |-> OrEmpty(d.video_addr),
     image_list |-> IF Len(d.image_list) > 0 THEN JsonDumps(d.image_list) ELSE JsonDumps(<<>>),
     cover_remote |-> OrEmpty(CoverRemoteOf(d)),
     cover_local |-> "",
     xsec_token |-> OrEmpty(d.xsec_token)]

\* existing_note_ids as the loop uses it: the caller's set, or, when the caller
\* passed None, the ids of the batch found in the table
BulkExistingIds(table, batch, existing_note_ids) ==
    IF existing_note_ids = {None_str}
    THEN {batch[i].note_id : i \in 1..Len(batch)} \cap {id \in DOMAIN table : table[id] # NoRow}
    ELSE existing_note_ids

\* the loop over notes_data_list: the rows updated in place (a note the caller
\* lists as existing but the table does not hold is left alone) ...
RECURSIVE BulkUpdated(_, _, _)
BulkUpdated(table, batch, ids) ==
    IF batch = <<>> THEN table
    ELSE LET d == Head(batch)
             next == IF Truthy(d.note_id) /\ d.note_id \in ids /\ table[d.note_id] # NoRow
                     THEN [table EXCEPT ![d.note_id] = BulkUpdate(@, d)]
                     ELSE table
         IN BulkUpdated(next, Tail(batch), ids)

\* ... and the mappings to insert, in batch order
BulkInserts(batch, ids) ==
    SelectSeq(batch, LAMBDA d : Truthy(d.note_id) /\ d.note_id \notin ids)

\* bulk_insert_mappings violates the primary key when a mapping's note_id is
\* already in the table or occurs twice among the mappings
BulkInsertConflict(table, ins) ==
    \/ \E i \in 1..Len(ins) : table[ins[i].note_id] # NoRow
    \/ \E i, j \in 1..Len(ins) : i # j /\ ins[i].note_id = ins[j].note_id

RECURSIVE BulkInserted(_, _)
BulkInserted(table, ins) ==
    IF ins = <<>> THEN table
    ELSE BulkInserted([table EXCEPT ![Head(ins).note_id] = BulkInsertMapping(Head(ins))],
                      Tail(ins))

\* whether _bulk_save_notes raises (after db.session.rollback())
BulkRaises(table, batch, existing_note_ids) ==
    /\ batch # <<>>
    /\ BulkInsertConflict(table,
           BulkInserts(batch, BulkExistingIds(table, batch, existing_note_ids)))

\* _bulk_save_notes: the notes table after the call; on an exception the
\* session is rolled back and nothing of the batch is kept
_bulk_save_notes(table, batch, existing_note_ids) ==
    IF batch = <<>> THEN table
    ELSE LET ids == BulkExistingIds(table, batch, existing_note_ids)
         IN IF BulkRaises(table, batch, existing_note_ids) THEN table
            ELSE BulkInserted(BulkUpdated(table, batch, ids), BulkInserts(batch, ids))

-----------------------------------------------------------------------------
(* Inputs of the merge specification *)

\* longest image list of an input
MaxImgs == 3
\* number of upsert calls in one run of the merge specification
MaxSaves == 2

\* accounts of the store, and the most notes the list page of one account returns
NumAccounts == 2
MaxItems == 2

Accounts == 1..NumAccounts

NoteNames == <<"n1", "n2", "n3", "n4", "n5", "n6", "n7", "n8", "n9", "n10", "n11", "n12">>

\* the id of the i-th note on the list page of account a
ItemId(a, i) == NoteNames[(a - 1) * MaxItems + i]

NoteIds == {NoteNames[k] : k \in 1..(NumAccounts * MaxItems)}

ImgsA == <<"a", "b", "c", "d", "e">>
ImgsP == <<"p", "q", "r", "s", "t">>
ImgLists == {SubSeq(ImgsA, 1, n) : n \in 0..MaxImgs} \cup {SubSeq(ImgsP, 1, n) : n \in 0..MaxImgs}

\* a note as a detail fetch returns it: every field populated
DetailBase ==
    [note_id |-> "n1", user_id |-> "u1", nickname |-> "nick", avatar |-> "ava",
     title |-> "title", desc |-> "desc", note_type |-> "normal",
     liked_count |-> 3, collected_count |-> 5, comment_count |-> 6, share_count |-> 7,
     upload_time |-> "t1", video_addr |-> "", image_list |-> SubSeq(ImgsA, 1, MaxImgs),
     cover_remote |-> None_str, video_cover |-> None_str, xsec_token |-> "k"]

\* the same note as the list page returns it: only the like counter, no
\* publish time, the cover as its only image (sync_service.py:1283, 1999, 2007, 2015)
ListBase ==
    [note_id |-> "n1", user_id |-> "u1", nickname |-> "nick", avatar |-> "ava",
     title |-> "title", desc |-> "", note_type |-> "normal",
     liked_count |-> 4, collected_count |-> None_int, comment_count |-> None_int,
     share_count |-> None_int,
     upload_time |-> None_str, video_addr |-> "", image_list |-> SubSeq(ImgsA, 1, 1),
     cover_remote |-> None_str, video_cover |-> None_str, xsec_token |-> "k"]

\* the two base notes and every note that differs from one of them in one field
Variants(b) ==
    {b}
    \cup {[b EXCEPT !.note_id = v] : v \in {""}}
    \cup {[b EXCEPT !.nickname = v] : v \in {None_str, "nick2"}}
    \cup {[b EXCEPT !.avatar = v] : v \in {"", "ava2"}}
    \cup {[b EXCEPT !.title = v] : v \in {" ", "title2"}}
    \cup {[b EXCEPT !.desc = v] : v \in {None_str, "", "desc2"}}
    \cup {[b EXCEPT !.note_type = v] : v \in {"video"}}
    \cup {[b EXCEPT !.liked_count = v] : v \in {None_int, 9}}
    \cup {[b EXCEPT !.collected_count = v] : v \in {None_int, 50}}
    \cup {[b EXCEPT !.comment_count = v] : v \in {None_int, 60}}
    \cup {[b EXCEPT !.share_count = v] : v \in {None_int, 70}}
    \cup {[b EXCEPT !.upload_time = v] : v \in {None_str, "", " ", "t2"}}
    \cup {[b EXCEPT !.video_addr = v] : v \in {None_str, "", "vid"}}
    \cup {[b EXCEPT !.image_list = v] : v \in ImgLists}
    \cup {[b EXCEPT !.cover_remote = v] : v \in {"cov"}}
    \cup {[b EXCEPT !.video_cover = v] : v \in {"vcov"}}
    \cup {[b EXCEPT !.xsec_token = v] : v \in {None_str, "k2"}}

MergeInputs == Variants(DetailBase) \cup Variants(ListBase)

\* list-page data: no save/comment/share counter, no publish time, at most the cover image
FromList(d) ==
    /\ d.collected_count = None_int
    /\ d.comment_count = None_int
    /\ d.share_count = None_int
    /\ d.upload_time = None_str
    /\ Len(d.image_list) <= 1

\* the batches of the bulk save: one note, or a base note followed by the list
\* data of the same note
MergeBatches ==
    {<<d>> : d \in MergeInputs} \cup {<<d, ListBase>> : d \in {DetailBase, ListBase}}

\* existing_note_ids as a caller passes it: None, or a set of note ids
ExistingArgs == {{None_str}, {}, {"n1"}}

-----------------------------------------------------------------------------
(* The merge specification: any sequence of upserts of one note *)

MergeInit ==
    /\ notes = [id \in NoteIds |-> NoRow]
    /\ lastSave = [op |-> "none"]
    /\ nSaves = 0
    /\ detailed = {}

\* the ids of a batch that carries detail data
DetailIds(batch) ==
    {batch[i].note_id : i \in {j \in 1..Len(batch) : ~FromList(batch[j]) /\ Truthy(batch[j].note_id)}}

\* a call of _save_note(note_data) with auto_commit=True
SaveNote ==
    /\ nSaves < MaxSaves
    /\ \E d \in MergeInputs :
          /\ notes' = _save_note(notes, d)
          /\ lastSave' = [op |-> "save", batch |-> <<d>>, raised |-> FALSE]
          /\ detailed' = detailed \cup DetailIds(<<d>>)
    /\ nSaves' = nSaves + 1
    /\ UNCHANGED <<delayVars, syncVars, sideVars>>

\* a call of _bulk_save_notes(notes_data_list, existing_note_ids)
BulkSave ==
    /\ nSaves < MaxSaves
    /\ \E batch \in MergeBatches, ex \in ExistingArgs :
          LET raised == BulkRaises(notes, batch, ex)
          IN /\ notes' = _bulk_save_notes(notes, batch, ex)
             /\ lastSave' = [op |-> "bulk", batch |-> batch, raised |-> raised]
             /\ detailed' = IF raised THEN detailed
                            ELSE detailed \cup {id \in DetailIds(batch) : notes'[id] # NoRow}
    /\ nSaves' = nSaves + 1
    /\ UNCHANGED <<delayVars, syncVars, sideVars>>

MergeNext == SaveNote \/ BulkSave

-----------------------------------------------------------------------------
(* AdaptiveDelayManager.  Delays are in milliseconds; a factor f is kept in  *)
(* tenths (2.0 is 20, 0.7 is 7) and delay * f is (delay * tenths) \div 10.    *)

Min(a, b) == IF a <= b THEN a ELSE b
Max(a, b) == IF a >= b THEN a ELSE b

Times(delay, tenths) == (delay * tenths) \div 10

\* AdaptiveDelayManager() with the default parameters
DefaultManager ==
    [min_delay |-> 5000, max_delay |-> 300000, initial_delay |-> 30000,
     backoff_factor |-> 20, recovery_threshold |-> 3, recovery_factor |-> 7,
     current_delay |-> 30000, consecutive_success |-> 0, rate_limit_count |-> 0]

\* the managers the tests construct (tests/test_sync_modules.py:28, 45, 67)
TestManagers ==
    {[DefaultManager EXCEPT !.initial_delay = 10000, !.current_delay = 10000,
                            !.max_delay = 100000],
     [DefaultManager EXCEPT !.initial_delay = 50000, !.current_delay = 50000,
                            !.recovery_factor = 5],
     [DefaultManager EXCEPT !.initial_delay = 20000, !.current_delay = 20000]}

\* a variant of record_rate_limit that forgets max_delay
record_rate_limit_Uncapped(m) ==
    [m EXCEPT !.rate_limit_count = @ + 1,
              !.consecutive_success = 0,
              !.current_delay = Times(m.current_delay, m.backoff_factor)]

record_rate_limit(m) ==
    [m EXCEPT !.rate_limit_count = @ + 1,
              !.consecutive_success = 0,
              !.current_delay = Min(Times(m.current_delay, m.backoff_factor), m.max_delay)]

\* a variant of record_success that keeps counting after a recovery
record_success_KeepsCount(m) ==
    IF m.consecutive_success + 1 >= m.recovery_threshold
    THEN [m EXCEPT !.current_delay = Max(Times(m.current_delay, m.recovery_factor), m.min_delay),
                   !.consecutive_success = @ + 1]
    ELSE [m EXCEPT !.consecutive_success = @ + 1]

record_success(m) ==
    IF m.consecutive_success + 1 >= m.recovery_threshold
    THEN [m EXCEPT !.current_delay = Max(Times(m.current_delay, m.recovery_factor), m.min_delay),
                   !.consecutive_success = 0]
    ELSE [m EXCEPT !.consecutive_success = @ + 1]

\* random.uniform(0.8, 1.2), in tenths: the two ends and the middle
JitterTenths == {8, 10, 12}

\* get_delay with the jitter drawn
get_delay(m, jitter) == Times(m.current_delay, jitter)

\* random.uniform(5, 15) seconds: the two ends
RateLimitRandom == {5000, 15000}

\* get_rate_limit_wait with the random part drawn
get_rate_limit_wait(m, rnd) ==
    m.current_delay * 2 + Min(m.rate_limit_count * 15000, 120000) + rnd

\* a variant of reset that keeps the count of rate limits
reset_KeepsCount(m) ==
    [m EXCEPT !.current_delay = m.initial_delay,
              !.consecutive_success = 0]

reset(m) ==
    [m EXCEPT !.current_delay = m.initial_delay,
              !.consecutive_success = 0,
              !.rate_limit_count = 0]

-----------------------------------------------------------------------------
(* The delay specification: any sequence of calls on one manager *)

\* number of calls in one run of the delay specification
MaxDelayCalls == 10

DelayInit ==
    /\ dm = DefaultManager
    /\ lastWait = 0 - 1
    /\ nDelayCalls = 0
    /\ successRun = <<>>

DelayInitAny ==
    /\ dm \in {DefaultManager} \cup TestManagers
    /\ lastWait = 0 - 1
    /\ nDelayCalls = 0
    /\ successRun = <<>>

RecordRateLimit ==
    /\ nDelayCalls < MaxDelayCalls
    /\ dm' = record_rate_limit(dm)
    /\ nDelayCalls' = nDelayCalls + 1
    /\ successRun' = <<>>
    /\ UNCHANGED <<lastWait, mergeVars, syncVars, sideVars>>

\* the delays before the latest calls of a run, the last recovery_threshold of them
LastOfRun(run, m) ==
    IF Len(run) > m.recovery_threshold
    THEN SubSeq(run, Len(run) - m.recovery_threshold + 1, Len(run))
    ELSE run

RecordSuccess ==
    /\ nDelayCalls < MaxDelayCalls
    /\ dm' = record_success(dm)
    /\ nDelayCalls' = nDelayCalls + 1
    /\ successRun' = LastOfRun(Append(successRun, dm.current_delay), dm)
    /\ UNCHANGED <<lastWait, mergeVars, syncVars, sideVars>>

Reset ==
    /\ nDelayCalls < MaxDelayCalls
    /\ dm' = reset(dm)
    /\ nDelayCalls' = nDelayCalls + 1
    /\ successRun' = <<>>
    /\ UNCHANGED <<lastWait, mergeVars, syncVars, sideVars>>

Delay ==
    /\ nDelayCalls < MaxDelayCalls
    /\ \E j \in JitterTenths : lastWait' = get_delay(dm, j)
    /\ nDelayCalls' = nDelayCalls + 1
    /\ UNCHANGED <<dm, successRun, mergeVars, syncVars, sideVars>>

RateLimitWait ==
    /\ nDelayCalls < MaxDelayCalls
    /\ \E r \in RateLimitRandom : lastWait' = get_rate_limit_wait(dm, r)
    /\ nDelayCalls' = nDelayCalls + 1
    /\ UNCHANGED <<dm, successRun, mergeVars, syncVars, sideVars>>

DelayNext == RecordRateLimit \/ RecordSuccess \/ Reset \/ Delay \/ RateLimitWait

-----------------------------------------------------------------------------
(* The accounts table, the stale task reaper and the helpers of the worker *)

HEARTBEAT_TIMEOUT == 300

\* sync_heartbeat is kept as its age in seconds; ages stop counting one past
\* the timeout, where every comparison the code makes has the same outcome
NoHeartbeat == None_int
AgeCap == HEARTBEAT_TIMEOUT + 1

NoLogs == [none |-> TRUE]

\* error_message: its kind and, for the advisory summary, the number of issues
Msg(kind, n) == [kind |-> kind, n |-> n]
NoError == Msg("none", 0)

NewAccount ==
    [status |-> "pending", progress |-> 0, loaded_msgs |-> 0, total_msgs |-> 0,
     error_message |-> NoError, heartbeat_age |-> NoHeartbeat, sync_logs |-> NoLogs]

\* time.sleep(secs), or secs passing otherwise: the heartbeats grow older.
\* The age is followed while the row is processing; the code reads the
\* heartbeat of no other row, and writes it anew when it claims the row.
Aged(accts, secs) ==
    [a \in Accounts |->
        [accts[a] EXCEPT !.heartbeat_age =
            IF @ = NoHeartbeat \/ accts[a].status # "processing" THEN @
            ELSE Min(@ + secs, AgeCap)]]

\* a variant of the filter that asks for a heartbeat
is_stale_NeedsHeartbeat(row, timeout_seconds) ==
    /\ row.status = "processing"
    /\ row.heartbeat_age # NoHeartbeat
    /\ row.heartbeat_age > timeout_seconds

\* the filter of cleanup_stale_tasks: processing, and no heartbeat or one older
\* than the cutoff
is_stale(row, timeout_seconds) ==
    /\ row.status = "processing"
    /\ \/ row.heartbeat_age = NoHeartbeat
       \/ row.heartbeat_age > timeout_seconds

stale_accounts(accts, timeout_seconds) ==
    {a \in Accounts : is_stale(accts[a], timeout_seconds)}

\* cleanup_stale_tasks: the count it returns ...
cleaned_count(accts, timeout_seconds) ==
    Cardinality(stale_accounts(accts, timeout_seconds))

\* ... a variant that leaves the heartbeat in place ...
cleanup_stale_tasks_KeepsHeartbeat(accts, timeout_seconds) ==
    [a \in Accounts |->
        IF a \in stale_accounts(accts, timeout_seconds)
        THEN [accts[a] EXCEPT !.status = "failed",
                              !.error_message = Msg("heartbeat_timeout", 0)]
        ELSE accts[a]]

\* ... and the table after the call
cleanup_stale_tasks(accts, timeout_seconds) ==
    [a \in Accounts |->
        IF a \in stale_accounts(accts, timeout_seconds)
        THEN [accts[a] EXCEPT !.status = "failed",
                              !.error_message = Msg("heartbeat_timeout", 0),
                              !.heartbeat_age = NoHeartbeat]
        ELSE accts[a]]

\* _mark_accounts_failed(account_ids, message)
_mark_accounts_failed(accts, ids, message) ==
    [a \in Accounts |->
        IF a \in ids
        THEN [accts[a] EXCEPT !.status = "failed", !.error_message = message,
                              !.progress = 0]
        ELSE accts[a]]

\* the notes whose cover and images the media directory holds
MediaFiles == {"n1"}

_is_media_missing(note) ==
    \/ ~Truthy(note.cover_local)
    \/ note.note_id \notin MediaFiles

\* _get_missing_required_fields(note) of a stored note
_get_missing_required_fields(note) ==
    {f \in {"note_id", "user_id", "nickname", "avatar", "title"} : is_blank(note[f])}
    \cup {f \in {"desc"} : note.desc = None_str}
    \cup {f \in {"upload_time", "cover_remote", "cover_local"} : is_blank(note[f])}
    \cup (IF note.type = "video"
          THEN {f \in {"video_addr"} : is_blank(note.video_addr)}
          ELSE {f \in {"image_list"} : OldImgCount(note.image_list) <= 1})
    \cup (IF _is_media_missing(note) THEN {"local_media"} ELSE {})

\* what the list page and the detail page return for a note
ListData(id) == [ListBase EXCEPT !.note_id = id]
DetailData(id) == [DetailBase EXCEPT !.note_id = id]

\* SyncLogCollector: the summary counters and the length of the issue list
EmptyLog ==
    [total |-> 0, success |-> 0, rate_limited |-> 0, unavailable |-> 0,
     missing_field |-> 0, fetch_failed |-> 0, token_refresh |-> 0,
     media_failed |-> 0, skipped |-> 0, issues |-> 0]

\* the issue types the summary counts
CountedTypes == {"rate_limited", "unavailable", "missing_field", "fetch_failed",
                 "token_refresh", "media_failed"}

\* the issue list stops growing at this length
MaxIssues == 500

\* a variant of add_issue that appends the issue and counts nothing
add_issue_ListOnly(log, type) ==
    [log EXCEPT !.issues = IF @ < MaxIssues THEN @ + 1 ELSE @]

\* add_issue(type): the issue is appended while the list is short of its cap,
\* and the counter of its type, when the summary has one, goes up
add_issue(log, type) ==
    LET appended == [log EXCEPT !.issues = IF @ < MaxIssues THEN @ + 1 ELSE @]
    IN IF type \in CountedTypes
       THEN [appended EXCEPT ![type] = @ + 1]
       ELSE appended

\* _bulk_save_notes is declared with two parameters and the fast path calls
\* it with three arguments
BulkSaveParams == 2
BulkSaveCallArgs == 3

\* the bulk save of the fast path inside its try/except: a TypeError of the
\* call is logged and the table stays as it is
FastBulkSave(table, ids, cache) ==
    IF BulkSaveCallArgs > BulkSaveParams THEN table
    ELSE _bulk_save_notes(table, [i \in 1..Len(ids) |-> ListData(ids[i])], cache)

FAST_SYNC_BATCH_SIZE == 20

\* the batches a sync request names, the modes, and the reaper's timeouts
BatchChoices == {[i \in 1..n |-> i] : n \in 1..NumAccounts}
SyncModes == {"fast", "deep"}
ReapTimeouts == {HEARTBEAT_TIMEOUT, HEARTBEAT_TIMEOUT \div 2}

\* a step of the clock: a time longer than the timeout passes
TickSeconds == AgeCap

\* sync threads started in one run
MaxBatches == 1

\* remote calls that go wrong in one run
MaxFaults == 2

Workers == {"w1"}

IdleWorker ==
    [pc |-> "idle", account_ids |-> <<>>, sync_mode |-> "fast", remaining_ids |-> {},
     acc |-> 0, warning |-> FALSE, auth_error |-> FALSE, total |-> 0, idx |-> 0,
     cache |-> {}, attempt |-> 0, detail_saved |-> FALSE, rate_limited |-> FALSE,
     fast_sync_batch |-> <<>>, log |-> EmptyLog, loaded |-> 0, progress |-> 0,
     slept |-> 0, claimed |-> {}, committed |-> [id \in NoteIds |-> NoRow]]

\* a thread that has ended keeps nothing but what it was asked and what it claimed
Ended(me, pc) ==
    [IdleWorker EXCEPT !.pc = pc, !.account_ids = me.account_ids,
                       !.sync_mode = me.sync_mode, !.claimed = me.claimed]

Live(w) == wk[w].pc \notin {"idle", "done", "dead"}

\* the account the worker is on
Cur(w) == wk[w].account_ids[wk[w].acc]

\* the note the worker is on
CurNote(w) == ItemId(Cur(w), wk[w].idx + 1)

-----------------------------------------------------------------------------
(* The sync specification: requests, the worker thread, the reaper, the clock *)

mergeGhost == <<lastSave, nSaves, detailed>>
delayGhost == <<lastWait, nDelayCalls, successRun>>

Range(s) == {s[i] : i \in 1..Len(s)}

SecOf(ms) == ms \div 1000

\* a row that legacy data or a dead process left behind: processing, no heartbeat
LegacyProcessing == [NewAccount EXCEPT !.status = "processing"]

\* a remote call answers well, or goes wrong while the run has faults left
Fault(good) ==
    /\ good \/ nFaults < limits.faults
    /\ nFaults' = IF good THEN nFaults ELSE nFaults + 1

SyncInit ==
    /\ accounts \in {[a \in Accounts |-> NewAccount],
                    [a \in Accounts |-> IF a = NumAccounts THEN LegacyProcessing
                                         ELSE NewAccount]}
    /\ cookie_valid \in BOOLEAN
    /\ stop_event = FALSE
    /\ wk = [w \in Workers |-> IdleWorker]
    /\ nBatches = 0
    /\ nFaults = 0

\* a variant of the commit that counts the notes of the list on top of the
\* notes done
Flushed_Overcount(accts, me) ==
    [accts EXCEPT ![me.account_ids[me.acc]] =
        [@ EXCEPT !.loaded_msgs = me.loaded + me.total, !.progress = me.progress]]

\* db.session.commit() of the worker: the pending progress of its account is
\* written, and the pending note writes become durable
Flushed(accts, me) ==
    [accts EXCEPT ![me.account_ids[me.acc]] =
        [@ EXCEPT !.loaded_msgs = me.loaded, !.progress = me.progress]]

FailRow(row, message) == [row EXCEPT !.status = "failed", !.error_message = message]

\* `continue` of the account loop
NextAcc(me) == [me EXCEPT !.pc = "next_account", !.acc = @ + 1]

\* POST /accounts/sync-batch: the accounts go back to pending, then start_sync
\* clears the stop flag and starts the thread
StartSync(w) ==
    /\ nBatches < MaxBatches
    /\ \A v \in Workers : ~Live(v)
    /\ \E ids \in BatchChoices, mode \in SyncModes :
          /\ accounts' = [a \in Accounts |->
                IF a \in Range(ids)
                THEN [accounts[a] EXCEPT !.status = "pending", !.progress = 0,
                                         !.error_message = NoError]
                ELSE accounts[a]]
          /\ wk' = [wk EXCEPT ![w] = [IdleWorker EXCEPT !.pc = "start",
                                        !.account_ids = ids, !.sync_mode = mode,
                                        !.committed = notes]]
    /\ stop_event' = FALSE
    /\ nBatches' = nBatches + 1
    /\ UNCHANGED <<notes, dm, cookie_valid, nFaults, mergeGhost, delayGhost, sideVars>>

\* _sync_accounts up to the account loop
WorkerStart(w) ==
    LET me == wk[w]
    IN /\ me.pc = "start"
       /\ dm' = reset(dm)
       /\ IF ~cookie_valid
          THEN /\ accounts' = [a \in Accounts |->
                     IF a \in Range(me.account_ids)
                     THEN FailRow(accounts[a], Msg("no_cookie", 0))
                     ELSE accounts[a]]
               /\ wk' = [wk EXCEPT ![w] = Ended(me, "done")]
          ELSE /\ wk' = [wk EXCEPT ![w] = [me EXCEPT !.pc = "next_account", !.acc = 1,
                                             !.remaining_ids = Range(me.account_ids)]]
               /\ UNCHANGED accounts
       /\ UNCHANGED <<notes, cookie_valid, stop_event, nBatches, nFaults,
                      mergeGhost, delayGhost, sideVars>>

\* the head of the account loop: the stop check, then the account is claimed
NextAccount(w) ==
    LET me == wk[w]
    IN /\ me.pc = "next_account"
       /\ IF me.acc > Len(me.account_ids) \/ stop_event
          THEN /\ wk' = [wk EXCEPT ![w] = Ended(me, "done")]
               /\ UNCHANGED accounts
          ELSE LET a == me.account_ids[me.acc]
               IN /\ accounts' = [accounts EXCEPT ![a] =
                        [@ EXCEPT !.status = "processing", !.progress = 0,
                                  !.loaded_msgs = 0, !.error_message = NoError,
                                  !.heartbeat_age = 0,
                                  !.sync_logs = IF me.sync_mode = "deep" THEN NoLogs ELSE @]]
                  /\ wk' = [wk EXCEPT ![w] =
                        [me EXCEPT !.pc = "token", !.remaining_ids = @ \ {a},
                                   !.auth_error = FALSE, !.warning = FALSE,
                                   !.log = EmptyLog, !.loaded = 0, !.progress = 0,
                                   !.total = 0, !.idx = 0, !.cache = {},
                                   !.fast_sync_batch = <<>>, !.slept = 0,
                                   !.claimed = @ \cup {a}, !.committed = notes]]
       /\ UNCHANGED <<notes, dm, cookie_valid, stop_event, nBatches, nFaults,
                      mergeGhost, delayGhost, sideVars>>

\* _fetch_user_xsec_token; deep sync gives the account up without a token
FetchToken(w) ==
    LET me == wk[w]
        a == Cur(w)
    IN /\ me.pc = "token"
       /\ \E got \in BOOLEAN :
             /\ Fault(got)
             /\ IF got
                THEN /\ wk' = [wk EXCEPT ![w] = [me EXCEPT !.pc = "list"]]
                     /\ UNCHANGED accounts
                ELSE IF me.sync_mode = "deep"
                THEN /\ accounts' = [accounts EXCEPT ![a] =
                                        FailRow(@, Msg("need_xsec_token", 0))]
                     /\ wk' = [wk EXCEPT ![w] = NextAcc([me EXCEPT !.warning = TRUE])]
                ELSE /\ wk' = [wk EXCEPT ![w] = [me EXCEPT !.pc = "list", !.warning = TRUE]]
                     /\ UNCHANGED accounts
       /\ UNCHANGED <<notes, dm, cookie_valid, stop_event, nBatches,
                      mergeGhost, delayGhost, sideVars>>

\* what get_user_all_notes answers: notes, an empty list, or a failure whose
\* message is an auth error, an xsec_token error or something else
ListOutcomes == {"ok", "empty", "auth", "token", "other"}

\* a variant of the list fetch that takes an empty list as it comes
ListFinal_NoRetry(mode, o1, nt1, o2, nt2, o3) ==
    IF o1 = "token" /\ mode = "deep" /\ nt1 THEN o2 ELSE o1

\* the answer the worker ends up with after the two retries with a new token
ListFinal(mode, o1, nt1, o2, nt2, o3) ==
    LET afterTok == IF o1 = "token" /\ mode = "deep" /\ nt1 THEN o2 ELSE o1
    IN IF afterTok = "empty" /\ nt2 /\ o3 = "ok" THEN o3 ELSE afterTok

ListResults(mode) ==
    {ListFinal(mode, o1, nt1, o2, nt2, o3) :
        o1 \in ListOutcomes, nt1 \in BOOLEAN, o2 \in ListOutcomes,
        nt2 \in BOOLEAN, o3 \in ListOutcomes}

\* get_user_all_notes with its retries, and the handling of a failure or an
\* empty list
ListFetch(w) ==
    LET me == wk[w]
        a == Cur(w)
    IN /\ me.pc = "list"
       /\ \E o \in ListResults(me.sync_mode), n \in 1..limits.items :
             /\ Fault(o = "ok")
             /\ CASE o = "auth" ->
                       /\ cookie_valid' = FALSE
                       /\ stop_event' = TRUE
                       /\ accounts' =
                             [_mark_accounts_failed(accounts, me.remaining_ids,
                                                    Msg("cookie_invalid", 0))
                                EXCEPT ![a] = FailRow(@, Msg("cookie_invalid", 0))]
                       /\ wk' = [wk EXCEPT ![w] = Ended(me, "done")]
                  [] o \in {"token", "other"} ->
                       /\ accounts' = [accounts EXCEPT ![a] = FailRow(@, Msg("list_failed", 0))]
                       /\ wk' = [wk EXCEPT ![w] = NextAcc(me)]
                       /\ UNCHANGED <<cookie_valid, stop_event>>
                  [] o = "empty" ->
                       /\ accounts' = [accounts EXCEPT ![a] =
                             [FailRow(@, Msg("empty_list", 0)) EXCEPT
                                 !.total_msgs = 0, !.loaded_msgs = 0, !.progress = 0]]
                       /\ wk' = [wk EXCEPT ![w] = NextAcc(me)]
                       /\ UNCHANGED <<cookie_valid, stop_event>>
                  [] o = "ok" ->
                       /\ wk' = [wk EXCEPT ![w] = [me EXCEPT !.pc = "info", !.total = n]]
                       /\ UNCHANGED <<accounts, cookie_valid, stop_event>>
       /\ UNCHANGED <<notes, dm, nBatches, mergeGhost, delayGhost, sideVars>>

\* get_user_info: an auth error stops the sync and fails the accounts not yet
\* started; then the total is stored and the existing notes are preloaded
InfoFetch(w) ==
    LET me == wk[w]
        a == Cur(w)
    IN /\ me.pc = "info"
       /\ \E o \in {"ok", "auth", "other"} :
             LET marked == IF o = "auth"
                           THEN _mark_accounts_failed(accounts, me.remaining_ids,
                                                      Msg("cookie_invalid", 0))
                           ELSE accounts
             IN /\ Fault(o = "ok")
                /\ accounts' = [marked EXCEPT ![a] =
                       [@ EXCEPT !.total_msgs = me.total, !.loaded_msgs = 0]]
                /\ cookie_valid' = IF o = "auth" THEN FALSE ELSE cookie_valid
                /\ stop_event' = IF o = "auth" THEN TRUE ELSE stop_event
                /\ wk' = [wk EXCEPT ![w] =
                       [me EXCEPT !.pc = "item", !.auth_error = (o = "auth"),
                                  !.loaded = 0, !.idx = 0,
                                  !.log = IF me.sync_mode = "deep"
                                          THEN [@ EXCEPT !.total = me.total] ELSE @,
                                  !.cache = {ItemId(a, i) : i \in 1..me.total}
                                            \cap {id \in DOMAIN notes : notes[id] # NoRow}]]
       /\ UNCHANGED <<notes, dm, nBatches, mergeGhost, delayGhost, sideVars>>

\* a variant of the decision that fetches the detail in fast sync as well
need_fetch_detail_AnyMode(sync_mode, cached, row) ==
    ~cached \/ _get_missing_required_fields(row) # {}

\* a variant of the decision that fetches the detail of new notes only
need_fetch_detail_NewOnly(sync_mode, cached, row) ==
    sync_mode = "deep" /\ ~cached

\* need_fetch_detail for a note of the list: in deep sync a note that is not in
\* the cache of stored notes or that misses a required field, in fast sync none
need_fetch_detail(sync_mode, cached, row) ==
    /\ sync_mode = "deep"
    /\ ~cached \/ _get_missing_required_fields(row) # {}

\* the head of the note loop and, for a note that needs no detail, its body:
\* deep sync refreshes the like counter of the cached note, fast sync buffers
\* the list data and saves the buffer when it is full
Item(w) ==
    LET me == wk[w]
        id == CurNote(w)
        fetch == need_fetch_detail(me.sync_mode, id \in me.cache, notes[id])
        buffered == Append(me.fast_sync_batch, id)
    IN /\ me.pc = "item"
       /\ IF me.idx >= me.total \/ stop_event
          THEN /\ wk' = [wk EXCEPT ![w] = [me EXCEPT !.pc = "finish"]]
               /\ UNCHANGED notes
          ELSE IF fetch
          THEN /\ wk' = [wk EXCEPT ![w] = [me EXCEPT !.pc = "detail", !.attempt = 0,
                                             !.detail_saved = FALSE,
                                             !.rate_limited = FALSE]]
               /\ UNCHANGED notes
          ELSE IF me.sync_mode = "deep"
          THEN /\ notes' = [notes EXCEPT ![id].liked_count =
                              IF ListData(id).liked_count # None_int
                              THEN ListData(id).liked_count ELSE @]
               /\ wk' = [wk EXCEPT ![w] = [me EXCEPT !.pc = "progress",
                                             !.log.skipped = @ + 1]]
          ELSE IF Len(buffered) >= FAST_SYNC_BATCH_SIZE
          THEN /\ notes' = FastBulkSave(notes, buffered, me.cache)
               /\ wk' = [wk EXCEPT ![w] = [me EXCEPT !.pc = "progress",
                                             !.fast_sync_batch = <<>>]]
          ELSE /\ wk' = [wk EXCEPT ![w] = [me EXCEPT !.pc = "progress",
                                             !.fast_sync_batch = buffered]]
               /\ UNCHANGED notes
       /\ UNCHANGED <<accounts, dm, cookie_valid, stop_event, nBatches, nFaults,
                      mergeGhost, delayGhost, sideVars>>

\* range(3) of the detail retry loop
DetailAttempts == 3

\* what spider_note answers: the note (saved, or with _save_note raising), a
\* rate limit, an unavailable note, an auth error, an xsec_token error, another
\* failure, or success without data (with or without a rate limit message)
DetailOutcomes == {"ok", "save_error", "rate_limited", "unavailable", "auth", "token",
                   "other", "empty_rate_limited", "empty"}

\* a variant of the retry loop without the cap of range(3)
after_attempt_NoCap(o, attempt) ==
    IF o \in {"rate_limited", "empty_rate_limited"} THEN "detail" ELSE "detail_end"

\* a variant of the retry loop that retries after a generic failure as well
after_attempt_RetryOther(o, attempt) ==
    IF o \in {"rate_limited", "empty_rate_limited", "other"} /\ attempt + 1 < DetailAttempts
    THEN "detail" ELSE "detail_end"

\* a variant of the retry loop in which a failure of the fetch or of the save
\* ends the note loop of the account
after_attempt_EndsLoop(o, attempt) ==
    IF o \in {"other", "save_error"} THEN "finish"
    ELSE IF o \in {"rate_limited", "empty_rate_limited"} /\ attempt + 1 < DetailAttempts
    THEN "detail" ELSE "detail_end"

\* where the retry loop goes after attempt number attempt (from 0) answered o:
\* `continue` after a rate limit, into the next attempt while range(3) has
\* one, `break` after every other answer
after_attempt(o, attempt) ==
    IF o \in {"rate_limited", "empty_rate_limited"} /\ attempt + 1 < DetailAttempts
    THEN "detail" ELSE "detail_end"

\* The random draws of one step of the worker: the jitter of get_delay (in
\* tenths), the random part of get_rate_limit_wait (ms), the extra pause of
\* _sleep_with_jitter (s, 0 when it is not taken) and the base of the retry
\* wait (s).  Every sleep grows with each draw, so the two extremes bound
\* every sleep the worker can take.
LowDraw == [jitter |-> 8, rnd |-> 5000, extra |-> 0, retry |-> 3]
HighDraw == [jitter |-> 12, rnd |-> 15000, extra |-> 20, retry |-> 6]
Draws == {LowDraw, HighDraw}

\* random.uniform(3, 6) * retry_attempt seconds before a retry
RetryWait(attempt, draw) == IF attempt > 0 THEN draw.retry * attempt ELSE 0

\* one round of the detail retry loop
DetailAttempt(w) ==
    LET me == wk[w]
        a == Cur(w)
        id == CurNote(w)
    IN /\ me.pc = "detail"
       /\ \E o \in DetailOutcomes, draw \in Draws :
          LET pre == RetryWait(me.attempt, draw)
          IN
          /\ Fault(o = "ok")
          /\ CASE o = "rate_limited" ->
                     LET wait == pre + SecOf(get_rate_limit_wait(record_rate_limit(dm),
                                                                 draw.rnd))
                     IN /\ dm' = record_rate_limit(dm)
                        /\ accounts' = Aged(accounts, wait)
                        /\ wk' = [wk EXCEPT ![w] =
                              [me EXCEPT !.pc = after_attempt(o, me.attempt), !.attempt = @ + 1,
                                         !.rate_limited = TRUE,
                                         !.log = add_issue(@, "rate_limited"),
                                         !.slept = Min(@ + wait, AgeCap)]]
                        /\ UNCHANGED <<notes, cookie_valid, stop_event>>
               [] o = "empty_rate_limited" ->
                     /\ accounts' = Aged(accounts, pre)
                     /\ wk' = [wk EXCEPT ![w] =
                           [me EXCEPT !.pc = after_attempt(o, me.attempt), !.attempt = @ + 1,
                                      !.rate_limited = TRUE,
                                      !.log = add_issue(@, "rate_limited"),
                                      !.slept = Min(@ + pre, AgeCap)]]
                     /\ UNCHANGED <<notes, dm, cookie_valid, stop_event>>
               [] o \in {"unavailable", "token", "other", "empty"} ->
                     /\ accounts' = Aged(accounts, pre)
                     /\ wk' = [wk EXCEPT ![w] =
                           [me EXCEPT !.pc = after_attempt(o, me.attempt),
                                      !.attempt = @ + 1,
                                      !.log = CASE o = "unavailable" -> add_issue(@, "unavailable")
                                                [] o = "token" -> add_issue(@, "token_refresh")
                                                [] o = "other" -> add_issue(@, "fetch_failed")
                                                [] OTHER -> @,
                                      !.slept = Min(@ + pre, AgeCap)]]
                     /\ UNCHANGED <<notes, dm, cookie_valid, stop_event>>
               [] o = "auth" ->
                     LET log == add_issue(me.log, "auth_error")
                         failed == [Flushed(Aged(accounts, pre), me) EXCEPT ![a] =
                                      [FailRow(@, Msg("cookie_invalid", 0)) EXCEPT
                                          !.sync_logs = log]]
                     IN /\ cookie_valid' = FALSE
                        /\ stop_event' = TRUE
                        /\ accounts' = _mark_accounts_failed(failed, me.remaining_ids,
                                                             Msg("cookie_invalid", 0))
                        /\ wk' = [wk EXCEPT ![w] =
                              [me EXCEPT !.pc = after_attempt(o, me.attempt),
                                         !.attempt = @ + 1, !.auth_error = TRUE,
                                         !.log = log, !.committed = notes,
                                         !.slept = Min(@ + pre, AgeCap)]]
                        /\ UNCHANGED <<notes, dm>>
               [] o = "save_error" ->
                     /\ notes' = me.committed
                     /\ accounts' = Aged(accounts, pre)
                     /\ wk' = [wk EXCEPT ![w] =
                           [me EXCEPT !.pc = after_attempt(o, me.attempt),
                                      !.attempt = @ + 1,
                                      !.log = add_issue(@, "fetch_failed"),
                                      !.slept = Min(@ + pre, AgeCap)]]
                     /\ UNCHANGED <<dm, cookie_valid, stop_event>>
               [] o = "ok" ->
                     /\ notes' = _save_note(notes, DetailData(id))
                     /\ dm' = record_success(dm)
                     /\ accounts' = Aged(accounts, pre)
                     /\ wk' = [wk EXCEPT ![w] =
                           [me EXCEPT !.pc = after_attempt(o, me.attempt),
                                      !.attempt = @ + 1, !.detail_saved = TRUE,
                                      !.log.success = @ + 1,
                                      !.slept = Min(@ + pre, AgeCap)]]
                     /\ UNCHANGED <<cookie_valid, stop_event>>
       /\ UNCHANGED <<nBatches, mergeGhost, delayGhost, sideVars>>

\* after the retry loop: the extra wait after a rate limit, the fallback save of
\* the list data (a _save_note that raises rolls the session back and is only
\* logged), and _sleep_with_jitter
DetailEnd(w) ==
    LET me == wk[w]
        id == CurNote(w)
    IN /\ me.pc = "detail_end"
       /\ \E draw \in Draws :
             LET total_wait == IF me.rate_limited /\ ~me.detail_saved
                               THEN SecOf(Times(get_rate_limit_wait(dm, draw.rnd), 15))
                               ELSE 0
                 delay == SecOf(get_delay(dm, draw.jitter)) + draw.extra
             IN /\ accounts' = Aged(accounts, total_wait + delay)
                /\ wk' = [wk EXCEPT ![w] =
                      [me EXCEPT !.pc = "progress",
                                 !.log = IF me.detail_saved THEN @
                                         ELSE add_issue(@, "missing_field"),
                                 !.slept = Min(@ + total_wait + delay, AgeCap)]]
       /\ \E raised \in BOOLEAN :
             /\ raised => ~me.detail_saved
             /\ Fault(~raised)
             /\ notes' = IF me.detail_saved THEN notes
                         ELSE IF raised THEN me.committed
                         ELSE _save_note(notes, ListData(id))
       /\ UNCHANGED <<dm, cookie_valid, stop_event, nBatches,
                      mergeGhost, delayGhost, sideVars>>

\* the progress commit happens on every fifth note and on the last one
CommitEvery == 5

\* a variant of the progress update that commits after every note
Progress_EveryNote(w) ==
    LET me == wk[w]
        a == Cur(w)
        loaded == me.idx + 1
        next == [me EXCEPT !.pc = "item", !.idx = @ + 1, !.loaded = loaded,
                           !.progress = (loaded * 100) \div me.total]
    IN /\ me.pc = "progress"
       /\ accounts' = [Flushed(accounts, next) EXCEPT ![a].heartbeat_age = 0]
       /\ wk' = [wk EXCEPT ![w] = [next EXCEPT !.slept = 0, !.committed = notes]]
       /\ UNCHANGED <<notes, dm, cookie_valid, stop_event, nBatches, nFaults,
                      mergeGhost, delayGhost, sideVars>>

\* the progress update at the end of the note loop body
Progress(w) ==
    LET me == wk[w]
        a == Cur(w)
        loaded == me.idx + 1
        progress == (loaded * 100) \div me.total
        should_commit == loaded % CommitEvery = 0 \/ me.idx = me.total - 1
        next == [me EXCEPT !.pc = "item", !.idx = @ + 1, !.loaded = loaded,
                           !.progress = progress]
    IN /\ me.pc = "progress"
       /\ IF should_commit
          THEN /\ accounts' = [Flushed(accounts, next) EXCEPT ![a].heartbeat_age = 0]
               /\ wk' = [wk EXCEPT ![w] = [next EXCEPT !.slept = 0, !.committed = notes]]
          ELSE /\ wk' = [wk EXCEPT ![w] = next]
               /\ UNCHANGED accounts
       /\ UNCHANGED <<notes, dm, cookie_valid, stop_event, nBatches, nFaults,
                      mergeGhost, delayGhost, sideVars>>
-----------------------------------------------------------------------------
(* AdaptiveDelayManager called from several threads.  Every method runs its  *)
(* body inside `with self._lock`: a call takes the lock, reads the fields,   *)
(* writes them back and gives the lock up.                                   *)

\* threads that call the manager, and calls made in one run
NumDelayThreads == 2
MaxThreadCalls == 4

DelayThreads == 1..NumDelayThreads
NoThread == 0

\* a thread that is in no call: it has read no field of the manager
IdleThread == [pc |-> "idle", op |-> "none", local |-> [none |-> TRUE]]

\* the manager after a call of op that read the fields as m holds them
ApplyOp(op, m) ==
    CASE op = "record_rate_limit" -> record_rate_limit(m)
      [] op = "record_success" -> record_success(m)
      [] op = "reset" -> reset(m)
      [] OTHER -> m

\* a variant of the lock that lets every thread in
lock_acquirable_Always(holder) == TRUE

\* threading.Lock: it can be taken when no thread holds it
lock_acquirable(holder) == holder = NoThread

LockInit ==
    /\ dlock = NoThread
    /\ dthreads = [t \in DelayThreads |-> IdleThread]
    /\ seqdm = DefaultManager

\* a thread calls a method and waits at `with self._lock`
ThreadCall(t) ==
    /\ dthreads[t].pc = "idle"
    /\ nDelayCalls < MaxThreadCalls
    /\ \E op \in {"record_rate_limit", "record_success", "reset", "get_delay",
                   "get_rate_limit_wait"} :
          dthreads' = [dthreads EXCEPT ![t] = [IdleThread EXCEPT !.pc = "acquire", !.op = op]]
    /\ nDelayCalls' = nDelayCalls + 1
    /\ UNCHANGED <<dm, lastWait, successRun, dlock, seqdm, mergeVars, syncVars, logVars, limits, media, mtasks>>

\* the thread enters the `with` block; from here its call is ordered before
\* every call that enters later
ThreadAcquire(t) ==
    /\ dthreads[t].pc = "acquire"
    /\ lock_acquirable(dlock)
    /\ dlock' = t
    /\ dthreads' = [dthreads EXCEPT ![t].pc = "load"]
    /\ seqdm' = ApplyOp(dthreads[t].op, seqdm)
    /\ UNCHANGED <<delayVars, mergeVars, syncVars, logVars, limits, media, mtasks>>

\* the body reads the fields of the manager
ThreadLoad(t) ==
    /\ dthreads[t].pc = "load"
    /\ dthreads' = [dthreads EXCEPT ![t].pc = "store", ![t].local = dm]
    /\ UNCHANGED <<delayVars, dlock, seqdm, mergeVars, syncVars, logVars, limits, media, mtasks>>

\* the body writes the fields it computed, or returns the wait it computed
ThreadStore(t) ==
    LET me == dthreads[t]
    IN /\ me.pc = "store"
       /\ dm' = IF me.op \in {"get_delay", "get_rate_limit_wait"} THEN dm
                ELSE ApplyOp(me.op, me.local)
       /\ \/ /\ me.op = "get_delay"
             /\ \E j \in JitterTenths : lastWait' = get_delay(me.local, j)
          \/ /\ me.op = "get_rate_limit_wait"
             /\ \E r \in RateLimitRandom : lastWait' = get_rate_limit_wait(me.local, r)
          \/ /\ me.op \notin {"get_delay", "get_rate_limit_wait"}
             /\ lastWait' = lastWait
       /\ dthreads' = [dthreads EXCEPT ![t].pc = "release"]
       /\ UNCHANGED <<nDelayCalls, successRun, dlock, seqdm, mergeVars, syncVars, logVars, limits, media, mtasks>>

\* the thread leaves the `with` block
ThreadRelease(t) ==
    /\ dthreads[t].pc = "release"
    /\ dlock' = NoThread
    /\ dthreads' = [dthreads EXCEPT ![t] = IdleThread]
    /\ UNCHANGED <<delayVars, seqdm, mergeVars, syncVars, logVars, limits, media, mtasks>>

ThreadsNext ==
    \E t \in DelayThreads :
        \/ ThreadCall(t)
        \/ ThreadAcquire(t)
        \/ ThreadLoad(t)
        \/ ThreadStore(t)
        \/ ThreadRelease(t)

\* the state of everything beside the notes, the delay manager and the sync engine

-----------------------------------------------------------------------------
(* SyncLogCollector on its own: add_issue, record_success, record_skipped,   *)
(* set_total and finalize called in any order.  The issue list is kept as    *)
(* the list it is, each issue with its type and the ordinal of the call that *)
(* made it (its time).  The class is defined twice, in sync_service.py (the  *)
(* one _sync_accounts uses) and in sync/log_collector.py; the two differ in  *)
(* what finalize returns.                                                    *)

\* calls made on the collector in one run
MaxLogCalls == 3

\* finalize calls made on the collector in one run
MaxFinalize == 2

\* the two definitions of the class
CollectorClasses == {"sync_service", "sync.log_collector"}

\* the TYPE_* constants of the collector
IssueTypes == {"rate_limited", "unavailable", "missing_field", "fetch_failed",
               "token_refresh", "media_failed", "auth_error"}

\* a variant of the append that makes room by dropping the oldest issue
append_issue_Evict(list, issue) ==
    IF Len(list) < MaxIssues THEN Append(list, issue) ELSE Append(Tail(list), issue)

\* if len(self.issues) < MAX_ISSUES: self.issues.append(issue)
append_issue(list, issue) ==
    IF Len(list) < MaxIssues THEN Append(list, issue) ELSE list

\* a collector on which add_issue was called k times (k below the cap) with
\* TYPE_RATE_LIMITED, and the calls that made it
CollectorAfter(k) ==
    [log |-> [EmptyLog EXCEPT !.rate_limited = k, !.issues = k],
     issues |-> [i \in 1..k |-> [type |-> "rate_limited", call |-> i]],
     cls |-> "sync.log_collector", end_time |-> None_int]
CallsAfter(k) ==
    [issues |-> [i \in 1..k |-> [type |-> "rate_limited", call |-> i]],
     success |-> 0, skipped |-> 0, made |-> 0, returned |-> <<>>]

\* SyncLogCollector.__init__
LogInit ==
    /\ coll = CollectorAfter(0)
    /\ collCalls = CallsAfter(0)

\* add_issue(issue_type)
CollectorAddIssue(type) ==
    /\ collCalls.made < MaxLogCalls
    /\ LET issue == [type |-> type, call |-> Len(collCalls.issues) + 1]
       IN /\ coll' = [coll EXCEPT !.log = add_issue(coll.log, type),
                                    !.issues = append_issue(coll.issues, issue)]
          /\ collCalls' = [collCalls EXCEPT !.issues = Append(@, issue),
                                            !.made = @ + 1]
    /\ UNCHANGED <<mergeVars, delayVars, syncVars, lockVars, limits, media, mtasks>>

\* record_success()
CollectorRecordSuccess ==
    /\ collCalls.made < MaxLogCalls
    /\ coll' = [coll EXCEPT !.log.success = @ + 1]
    /\ collCalls' = [collCalls EXCEPT !.success = @ + 1, !.made = @ + 1]
    /\ UNCHANGED <<mergeVars, delayVars, syncVars, lockVars, limits, media, mtasks>>

\* record_skipped()
CollectorRecordSkipped ==
    /\ collCalls.made < MaxLogCalls
    /\ coll' = [coll EXCEPT !.log.skipped = @ + 1]
    /\ collCalls' = [collCalls EXCEPT !.skipped = @ + 1, !.made = @ + 1]
    /\ UNCHANGED <<mergeVars, delayVars, syncVars, lockVars, limits, media, mtasks>>

\* set_total(total)
CollectorSetTotal(total) ==
    /\ collCalls.made < MaxLogCalls
    /\ coll' = [coll EXCEPT !.log.total = total]
    /\ collCalls' = [collCalls EXCEPT !.made = @ + 1]
    /\ UNCHANGED <<mergeVars, delayVars, syncVars, lockVars, limits, media, mtasks>>

\* the dictionary finalize returns at time now: sync/log_collector.py copies
\* the summary and the issue list into it, sync_service.py puts the
\* collector's own summary and list in (shared), which later calls change
finalize(c, now) ==
    [end_time |-> now, summary |-> c.log, issues |-> c.issues,
     shared |-> c.cls = "sync_service"]

\* what the holder of a returned dictionary reads in it while the collector
\* is c
read_logs(logs, c) ==
    IF logs.shared THEN [logs EXCEPT !.summary = c.log, !.issues = c.issues]
    ELSE logs

\* a variant that takes every recorded issue for a problem
has_problems_AnyIssue(log) == log.issues > 0

\* has_problems()
has_problems(log) ==
    \/ log.rate_limited > 0
    \/ log.missing_field > 0
    \/ log.fetch_failed > 0
    \/ log.unavailable > 0

\* finalize(): end_time is stamped and the dictionary is returned to the
\* caller, who keeps it (with the number of calls made before it)
CollectorFinalize ==
    /\ Len(collCalls.returned) < MaxFinalize
    /\ LET now == collCalls.made + Len(collCalls.returned) + 1
       IN /\ coll' = [coll EXCEPT !.end_time = now]
          /\ collCalls' = [collCalls EXCEPT !.returned =
                              Append(@, [logs |-> finalize(coll, now),
                                         made |-> collCalls.made])]
    /\ UNCHANGED <<mergeVars, delayVars, syncVars, lockVars, limits, media, mtasks>>

CollectorNext ==
    \/ \E type \in IssueTypes : CollectorAddIssue(type)
    \/ CollectorRecordSuccess
    \/ CollectorRecordSkipped
    \/ \E total \in 1..2 : CollectorSetTotal(total)



-----------------------------------------------------------------------------
(* MediaDownloadQueue: cover tasks submitted for one note and one URL, run   *)
(* by the threads of the pool.  The file of the cover is its size in bytes,  *)
(* None when there is none.                                                  *)

\* cover tasks submitted in one run
NumCoverTasks == 2

\* ThreadPoolExecutor(max_workers=MAX_WORKERS)
MAX_WORKERS == 4
\* a file counts as downloaded when its size passes this number of bytes
MinCoverBytes == 1024
\* for attempt in range(2)
CoverAttempts == 2

\* f"/api/media/{note_id}_cover{ext}" of the one note of this run
CoverPath == "/api/media/n1_cover.jpg"

NewTask == [pc |-> "new", url |-> "", attempt |-> 0, body |-> 0, local |-> None_str,
            fetched |-> 0, skipped |-> FALSE, counted |-> FALSE]

\* a variant of the check that never finds the file
cover_is_valid_Never(file) == FALSE

\* os.path.exists(filepath) and os.path.getsize(filepath) > 1024
cover_is_valid(file) == file # None_int /\ file > MinCoverBytes

\* a variant of the callback that needs an app context and raises without one
_update_cover_local_Raises(cover_local, local_path, ctx) ==
    IF ctx THEN [cover_local |-> local_path, raised |-> FALSE]
    ELSE [cover_local |-> cover_local, raised |-> TRUE]

\* SyncService._update_cover_local(note_id, local_path) in a thread with (ctx)
\* or without an app context: the column after the call, and whether the call
\* raised
_update_cover_local(cover_local, local_path, ctx) ==
    IF local_path = None_str \/ ~ctx
    THEN [cover_local |-> cover_local, raised |-> FALSE]
    ELSE [cover_local |-> local_path, raised |-> FALSE]

\* MediaDownloadQueue.__init__, no cover on disk, no cover_local in the row
MediaInit ==
    /\ media = [file |-> None_int, cover_local |-> "",
                stats |-> [submitted |-> 0, completed |-> 0, failed |-> 0],
                gets |-> 0, good_gets |-> 0, callbacks |-> <<>>, overlap |-> FALSE]
    /\ mtasks = [t \in 1..NumCoverTasks |-> NewTask]

\* submit_cover_download(remote_url, note_id, callback=_update_cover_local) up
\* to self._executor.submit(_download_task): from here on a thread of the pool
\* can run the task, while the caller has yet to count it
SubmitCover(t) ==
    /\ mtasks[t].pc = "new"
    /\ \E url \in {"", "http://img/c.jpg"} :
          IF url = ""
          THEN mtasks' = [mtasks EXCEPT ![t] = [@ EXCEPT !.pc = "dropped"]]
          ELSE mtasks' = [mtasks EXCEPT ![t] = [@ EXCEPT !.pc = "queued", !.url = url]]
    /\ UNCHANGED <<media, mergeVars, delayVars, syncVars, lockVars, logVars, limits>>

\* the rest of submit_cover_download in the calling thread: under the two
\* locks the future joins self._futures and the task is counted submitted
SubmitCount(t) ==
    /\ mtasks[t].pc \notin {"new", "dropped"}
    /\ ~mtasks[t].counted
    /\ mtasks' = [mtasks EXCEPT ![t] = [@ EXCEPT !.counted = TRUE]]
    /\ media' = [media EXCEPT !.stats.submitted = @ + 1]
    /\ UNCHANGED <<mergeVars, delayVars, syncVars, lockVars, logVars, limits>>

\* get_stats()['pending']: the futures of self._futures that are not done
pending(tasks) ==
    Cardinality({t \in DOMAIN tasks : tasks[t].counted /\ tasks[t].pc # "done"})

\* a thread of the pool takes the task; _do_download_cover up to the check of
\* the file
CoverCheck(t) ==
    /\ mtasks[t].pc = "queued"
    /\ Cardinality({u \in 1..NumCoverTasks :
                      mtasks[u].pc \in {"fetch", "write", "callback"}}) < MAX_WORKERS
    /\ IF cover_is_valid(media.file)
       THEN /\ mtasks' = [mtasks EXCEPT ![t] = [@ EXCEPT !.pc = "callback",
                                                      !.local = CoverPath,
                                                      !.skipped = TRUE]]
            /\ UNCHANGED media
       ELSE /\ mtasks' = [mtasks EXCEPT ![t] = [@ EXCEPT !.pc = "fetch", !.attempt = 0]]
            /\ media' = [media EXCEPT !.overlap =
                            @ \/ \E u \in 1..NumCoverTasks :
                                    mtasks[u].pc \in {"fetch", "write"}]
    /\ UNCHANGED <<mergeVars, delayVars, syncVars, lockVars, logVars, limits>>

\* session_pool.get(remote_url): status 200 opens the file for writing, which
\* empties it; 403, another status or an exception goes to the next attempt
CoverFetch(t) ==
    LET me == mtasks[t]
        next == IF me.attempt + 1 >= CoverAttempts
                THEN [me EXCEPT !.pc = "callback", !.local = None_str, !.fetched = @ + 1]
                ELSE [me EXCEPT !.attempt = @ + 1, !.fetched = @ + 1]
    IN /\ me.pc = "fetch"
       /\ \E status \in {200, 403, 500, 0}, size \in {MinCoverBytes, MinCoverBytes + 1} :
             IF status = 200
             THEN /\ mtasks' = [mtasks EXCEPT ![t] = [me EXCEPT !.pc = "write",
                                                              !.body = size,
                                                              !.fetched = @ + 1]]
                  /\ media' = [media EXCEPT !.file = 0, !.gets = @ + 1,
                                            !.good_gets = IF size > MinCoverBytes
                                                          THEN @ + 1 ELSE @]
             ELSE /\ size = MinCoverBytes
                  /\ mtasks' = [mtasks EXCEPT ![t] = next]
                  /\ media' = [media EXCEPT !.gets = @ + 1]
       /\ UNCHANGED <<mergeVars, delayVars, syncVars, lockVars, logVars, limits>>

\* the chunks of the response are written and the path is returned
CoverWrite(t) ==
    /\ mtasks[t].pc = "write"
    /\ media' = [media EXCEPT !.file = mtasks[t].body]
    /\ mtasks' = [mtasks EXCEPT ![t] = [@ EXCEPT !.pc = "callback", !.local = CoverPath]]
    /\ UNCHANGED <<mergeVars, delayVars, syncVars, lockVars, logVars, limits>>

\* the end of _download_task: the callback is called when there is a path,
\* and the task is counted completed, or failed when something raised
CoverCallback(t) ==
    LET me == mtasks[t]
    IN /\ me.pc = "callback"
       /\ \E ctx \in BOOLEAN :
             LET called == me.local # None_str
                 res == IF called THEN _update_cover_local(media.cover_local, me.local, ctx)
                        ELSE [cover_local |-> media.cover_local, raised |-> FALSE]
             IN /\ called \/ ~ctx
                /\ media' = [media EXCEPT
                      !.cover_local = res.cover_local,
                      !.callbacks = IF called
                                    THEN Append(@, [task |-> t, note_id |-> "n1",
                                                    local_path |-> me.local, ctx |-> ctx])
                                    ELSE @,
                      !.stats.completed = IF res.raised THEN @ ELSE @ + 1,
                      !.stats.failed = IF res.raised THEN @ + 1 ELSE @]
       /\ mtasks' = [mtasks EXCEPT ![t] = [me EXCEPT !.pc = "done"]]
       /\ UNCHANGED <<mergeVars, delayVars, syncVars, lockVars, logVars, limits>>

MediaNext ==
    \E t \in 1..NumCoverTasks :
       \/ SubmitCover(t)
       \/ SubmitCount(t)
       \/ CoverCheck(t)
       \/ CoverFetch(t)
       \/ CoverWrite(t)
       \/ CoverCallback(t)

\* the subsystems at rest, and the limits of a run of the sync service
SideInit ==
    /\ LockInit /\ LogInit /\ MediaInit
    /\ limits = [items |-> MaxItems, faults |-> MaxFaults]


\* variants of the count: one that leaves the rate limits out, and one that
\* takes every saved note for an issue
issues_count_MissingOnly(log) == log.missing_field + log.fetch_failed
issues_count_WithSuccess(log) == log.rate_limited + log.missing_field + log.fetch_failed
                                 + log.success

\* rate_limited + missing_field + fetch_failed of the summary
issues_count(log) == log.rate_limited + log.missing_field + log.fetch_failed

\* a variant of the stop branch that lets the account complete
StoppedRow_Completes(row, log, deep) ==
    [row EXCEPT !.status = "completed", !.progress = 100,
                !.heartbeat_age = NoHeartbeat,
                !.sync_logs = IF deep THEN log ELSE @]

\* the stop branch of the end of an account: a row that is still processing
\* fails with the stopped message unless it carries a message already, and
\* the log is saved
StoppedRow(row, log, deep) ==
    IF row.status = "processing"
    THEN [row EXCEPT !.status = "failed",
                     !.error_message = IF @ = NoError THEN Msg("stopped", 0) ELSE @,
                     !.heartbeat_age = NoHeartbeat,
                     !.sync_logs = IF deep THEN log ELSE @]
    ELSE [row EXCEPT !.sync_logs = IF deep THEN log ELSE @]

\* after the note loop: the rest of the fast buffer is saved, then the account
\* is left as it is after an auth error, completed, or failed after a stop
Finish(w) ==
    LET me == wk[w]
        a == Cur(w)
        deep == me.sync_mode = "deep"
        flush == me.sync_mode = "fast" /\ me.fast_sync_batch # <<>>
        flushed == Flushed(accounts, me)
    IN /\ me.pc = "finish"
       /\ notes' = IF flush THEN FastBulkSave(notes, me.fast_sync_batch, me.cache)
                   ELSE notes
       /\ IF me.auth_error
          THEN /\ accounts' = IF deep THEN [flushed EXCEPT ![a].sync_logs = me.log]
                              ELSE accounts
               /\ wk' = [wk EXCEPT ![w] = Ended(me, "done")]
          ELSE IF ~stop_event
          THEN /\ accounts' = [accounts EXCEPT ![a] =
                     [@ EXCEPT !.status = "completed", !.progress = 100,
                               !.loaded_msgs = me.total,
                               !.heartbeat_age = NoHeartbeat,
                               !.sync_logs = IF deep THEN me.log ELSE @,
                               !.error_message =
                                   IF deep /\ issues_count(me.log) > 0
                                   THEN Msg("completed_with_issues", issues_count(me.log))
                                   ELSE @]]
               /\ wk' = [wk EXCEPT ![w] =
                     NextAcc([me EXCEPT !.fast_sync_batch = <<>>, !.committed = notes'])]
          ELSE /\ accounts' = [flushed EXCEPT ![a] = StoppedRow(@, me.log, deep)]
               /\ wk' = [wk EXCEPT ![w] =
                     NextAcc([me EXCEPT !.fast_sync_batch = <<>>, !.committed = notes'])]
       /\ UNCHANGED <<dm, cookie_valid, stop_event, nBatches, nFaults,
                      mergeGhost, delayGhost, sideVars>>

\* where a call of the remote API can raise inside the account's try block
RaisePoints == {"list", "detail"}

\* the `except Exception` of the account loop: the session is rolled back and
\* the account fails
AccountException(w) ==
    LET me == wk[w]
        a == Cur(w)
        log == add_issue(me.log, "fetch_failed")
    IN /\ me.pc \in RaisePoints
       /\ Fault(FALSE)
       /\ notes' = me.committed
       /\ accounts' = [accounts EXCEPT ![a] =
             [FailRow(@, Msg("sync_error", 0)) EXCEPT
                 !.heartbeat_age = NoHeartbeat,
                 !.sync_logs = IF me.sync_mode = "deep" THEN log ELSE @]]
       /\ wk' = [wk EXCEPT ![w] = NextAcc([me EXCEPT !.log = log])]
       /\ UNCHANGED <<dm, cookie_valid, stop_event, nBatches,
                      mergeGhost, delayGhost, sideVars>>

\* the `except Exception` of _run_sync: an exception left _sync_accounts (it
\* was raised again inside the account's handler, before or after the
\* rollback); every account of the batch that is processing fails, and the
\* commit writes what the session still holds
TopLevelGuard(w) ==
    LET me == wk[w]
    IN /\ me.pc \in RaisePoints
       /\ Fault(FALSE)
       /\ \E rolled \in BOOLEAN :
             /\ notes' = IF rolled THEN me.committed ELSE notes
             /\ accounts' = [a \in Accounts |->
                   LET row == IF rolled THEN accounts[a] ELSE Flushed(accounts, me)[a]
                   IN IF a \in Range(me.account_ids) /\ row.status = "processing"
                      THEN [row EXCEPT !.status = "failed",
                                       !.error_message = Msg("thread_crashed", 0),
                                       !.heartbeat_age = NoHeartbeat]
                      ELSE row]
       /\ wk' = [wk EXCEPT ![w] = Ended(me, "done")]
       /\ UNCHANGED <<dm, cookie_valid, stop_event, nBatches,
                      mergeGhost, delayGhost, sideVars>>

\* the process dies (a container restart): the thread is gone without any
\* cleanup, uncommitted writes are lost, and the next process starts with a
\* clear stop flag and a new delay manager
Crash(w) ==
    /\ Live(w)
    /\ wk' = [wk EXCEPT ![w] = Ended(@, "dead")]
    /\ notes' = IF wk[w].pc = "start" THEN notes ELSE wk[w].committed
    /\ stop_event' = FALSE
    /\ dm' = DefaultManager
    /\ UNCHANGED <<accounts, cookie_valid, nBatches, nFaults,
                   mergeGhost, delayGhost, sideVars>>

\* SyncService.stop_sync(): the stop flag is set and nothing else
StopSync ==
    /\ stop_event' = TRUE
    /\ UNCHANGED <<accounts, notes, dm, cookie_valid, wk, nBatches, nFaults,
                   mergeGhost, delayGhost, sideVars>>

\* POST /accounts/stop-sync: the stop flag is set and every processing or
\* pending account fails
StopSyncRest ==
    /\ stop_event' = TRUE
    /\ accounts' = [a \in Accounts |->
          IF accounts[a].status \in {"processing", "pending"}
          THEN [accounts[a] EXCEPT !.status = "failed", !.progress = 0,
                                   !.error_message = Msg("stopped", 0)]
          ELSE accounts[a]]
    /\ UNCHANGED <<notes, dm, cookie_valid, wk, nBatches, nFaults,
                   mergeGhost, delayGhost, sideVars>>

\* a call of cleanup_stale_tasks(timeout_seconds)
CleanupStale(timeout_seconds) ==
    /\ accounts' = cleanup_stale_tasks(accounts, timeout_seconds)
    /\ UNCHANGED <<notes, dm, cookie_valid, stop_event, wk, nBatches, nFaults,
                   mergeGhost, delayGhost, sideVars>>

\* time passes
Tick ==
    /\ accounts' = Aged(accounts, TickSeconds)
    /\ UNCHANGED <<notes, dm, cookie_valid, stop_event, wk, nBatches, nFaults,
                   mergeGhost, delayGhost, sideVars>>

WorkerStep(w) ==
    \/ WorkerStart(w)
    \/ NextAccount(w)
    \/ FetchToken(w)
    \/ ListFetch(w)
    \/ InfoFetch(w)
    \/ Item(w)
    \/ DetailAttempt(w)
    \/ DetailEnd(w)
    \/ Progress(w)
    \/ Finish(w)
    \/ AccountException(w)
    \/ TopLevelGuard(w)

Next ==
    \/ \E w \in Workers : StartSync(w)
    \/ \E w \in Workers : WorkerStep(w)
    \/ \E w \in Workers : Crash(w)
    \/ StopSyncRest
    \/ \E t \in ReapTimeouts : CleanupStale(t)
    \/ Tick

-----------------------------------------------------------------------------
(* Specifications *)

vars == <<mergeVars, delayVars, syncVars, sideVars>>

Init == MergeInit /\ DelayInit /\ SyncInit /\ SideInit

\* the sync engine
Spec == Init /\ [][Next]_vars

\* the sync engine with threads that keep being scheduled, a clock that keeps
\* running and a reaper that keeps being called with the default timeout
SpecLive ==
    /\ Init
    /\ [][Next]_vars
    /\ WF_vars(\E w \in Workers : WorkerStep(w))
    /\ WF_vars(Tick)
    /\ WF_vars(CleanupStale(HEARTBEAT_TIMEOUT))

\* the rows the reaper can meet: any status, any heartbeat (a completed row
\* has none)
ReaperAges ==
    {NoHeartbeat, 0, HEARTBEAT_TIMEOUT \div 2, HEARTBEAT_TIMEOUT \div 2 + 1,
     HEARTBEAT_TIMEOUT, AgeCap}

ReaperRows ==
    {[NewAccount EXCEPT !.status = s, !.heartbeat_age = h] :
        s \in {"pending", "processing", "failed"}, h \in ReaperAges}
    \cup {[NewAccount EXCEPT !.status = "completed", !.progress = 100]}

ReaperInit ==
    /\ accounts \in [Accounts -> ReaperRows]
    /\ cookie_valid = TRUE
    /\ stop_event = FALSE
    /\ wk = [w \in Workers |-> IdleWorker]
    /\ nBatches = 0
    /\ nFaults = 0

ReaperNext ==
    \/ \E t \in ReapTimeouts : CleanupStale(t)
    \/ Tick

InitReaper == MergeInit /\ DelayInit /\ ReaperInit /\ SideInit

\* the reaper and the clock alone, on any accounts table
SpecReaper == InitReaper /\ [][ReaperNext]_vars

\* no sync is requested
SyncQuiet ==
    /\ accounts = [a \in Accounts |-> NewAccount]
    /\ cookie_valid = TRUE
    /\ stop_event = FALSE
    /\ wk = [w \in Workers |-> IdleWorker]
    /\ nBatches = 0
    /\ nFaults = 0

InitMerge == MergeInit /\ DelayInit /\ SyncQuiet /\ SideInit

\* the upsert alone, called with any data
SpecMerge == InitMerge /\ [][MergeNext]_vars

InitDelay == MergeInit /\ DelayInitAny /\ SyncQuiet /\ SideInit

\* the delay manager alone, with the defaults or the parameters of the tests
SpecDelay == InitDelay /\ [][DelayNext]_vars

\* the manager of the singleton or of a test, and threads that have made no call
InitDelayThreads ==
    /\ MergeInit /\ DelayInitAny /\ SyncQuiet
    /\ dlock = NoThread
    /\ dthreads = [t \in DelayThreads |-> IdleThread]
    /\ seqdm = dm
    /\ LogInit /\ MediaInit
    /\ limits = [items |-> MaxItems, faults |-> MaxFaults]

\* the delay manager called from several threads
SpecDelayThreads == InitDelayThreads /\ [][ThreadsNext]_vars

\* a collector that is new, or that has taken issues up to just below its cap
InitCollector ==
    /\ MergeInit /\ DelayInit /\ SyncQuiet /\ LockInit /\ MediaInit
    /\ limits = [items |-> MaxItems, faults |-> MaxFaults]
    /\ \E k \in {0, MaxIssues - 2} :
          /\ coll = CollectorAfter(k)
          /\ collCalls = CallsAfter(k)

\* the collector called in any order
SpecCollector == InitCollector /\ [][CollectorNext]_vars

\* a new collector of either class
InitFinalize ==
    /\ MergeInit /\ DelayInit /\ SyncQuiet /\ LockInit /\ MediaInit
    /\ limits = [items |-> MaxItems, faults |-> MaxFaults]
    /\ \E cls \in CollectorClasses : coll = [CollectorAfter(0) EXCEPT !.cls = cls]
    /\ collCalls = CallsAfter(0)

\* the collector called in any order, finalize() among the calls
SpecFinalize == InitFinalize /\ [][CollectorNext \/ CollectorFinalize]_vars

\* the sync service with stop_sync() called on its own as well
SpecStop == Init /\ [][Next \/ StopSync]_vars

\* the runs of a deep sync of one account: a short list with a few remote
\* calls that go wrong and a longer list with none; for the retry loop, two
\* notes with enough calls that go wrong to use up every attempt of one, and
\* a list whose first notes an earlier run has stored
FaultyRunItems == 5
FaultyRunFaults == 3
CleanRunItems == 10
RetryRunItems == 2
RetryRunFaults == 3
StoredRunItems == 3

\* the store an earlier run left: note 1 with every required field and its
\* media on disk, note 2 with its list data only
StoredNotes ==
    [id \in {NoteNames[k] : k \in 1..Max(FaultyRunItems, CleanRunItems)} |->
        IF id = ItemId(1, 1)
        THEN [SaveNoteInsert(DetailData(id)) EXCEPT !.cover_local = CoverPath]
        ELSE IF id = ItemId(1, 2) THEN SaveNoteInsert(ListData(id))
        ELSE NoRow]

\* the stores an earlier run, or the earlier server with its nullable counter
\* columns, may have left: StoredNotes, StoredNotes with a first note that
\* differs from the complete row in one column, and StoredNotes with a second
\* note that has every column but no media on disk
StoredStores ==
    LET n1 == ItemId(1, 1)
        n2 == ItemId(1, 2)
        b == StoredNotes[n1]
    IN {StoredNotes}
       \cup {[StoredNotes EXCEPT ![n1] = [b EXCEPT ![f] = v]] :
                f \in {"user_id", "nickname", "avatar", "title", "upload_time",
                       "cover_remote", "cover_local"},
                v \in {None_str, "", " "}}
       \cup {[StoredNotes EXCEPT ![n1] = [b EXCEPT !.desc = v]] : v \in {None_str, ""}}
       \cup {[StoredNotes EXCEPT ![n1] = [b EXCEPT ![f] = None_int]] :
                f \in {"liked_count", "collected_count", "comment_count", "share_count"}}
       \cup {[StoredNotes EXCEPT ![n1] = [b EXCEPT !.image_list = JsonDumps(SubSeq(ImgsA, 1, n))]] :
                n \in 0..1}
       \cup {[StoredNotes EXCEPT ![n1] = [b EXCEPT !.type = "video", !.video_addr = v]] :
                v \in {None_str, "", "v.mp4"}}
       \cup {[StoredNotes EXCEPT ![n2] = [b EXCEPT !.note_id = n2]]}

\* start_sync([1], 'deep') on an empty store with a valid cookie: the thread
\* is started and has not run yet
InitScenario ==
    /\ DelayInit /\ LockInit /\ LogInit /\ MediaInit
    /\ notes = [id \in DOMAIN StoredNotes |-> NoRow]
    /\ lastSave = [op |-> "none"] /\ nSaves = 0 /\ detailed = {}
    /\ accounts = [a \in Accounts |-> NewAccount]
    /\ cookie_valid = TRUE
    /\ stop_event = FALSE
    /\ wk = [w \in Workers |-> [IdleWorker EXCEPT !.pc = "start", !.account_ids = <<1>>,
                                                   !.sync_mode = "deep", !.committed = notes]]
    /\ nBatches = 1
    /\ nFaults = 0
    /\ limits \in {[items |-> FaultyRunItems, faults |-> FaultyRunFaults],
                   [items |-> CleanRunItems, faults |-> 0]}

\* the deep sync of one account, left alone
SpecScenario == InitScenario /\ [][\E w \in Workers : WorkerStep(w)]_vars

\* start_sync([1], 'deep') with a valid cookie, on an empty store or on the
\* store of an earlier run: the thread is started and has not run yet
InitRetry ==
    /\ DelayInit /\ LockInit /\ LogInit /\ MediaInit
    /\ lastSave = [op |-> "none"] /\ nSaves = 0 /\ detailed = {}
    /\ accounts = [a \in Accounts |-> NewAccount]
    /\ cookie_valid = TRUE
    /\ stop_event = FALSE
    /\ \E stored \in BOOLEAN :
          /\ IF stored THEN notes \in StoredStores
             ELSE notes = [id \in DOMAIN StoredNotes |-> NoRow]
          /\ limits = IF stored THEN [items |-> StoredRunItems, faults |-> 0]
                      ELSE [items |-> RetryRunItems, faults |-> RetryRunFaults]
          /\ wk = [w \in Workers |-> [IdleWorker EXCEPT !.pc = "start",
                                                         !.account_ids = <<1>>,
                                                         !.sync_mode = "deep",
                                                         !.committed = notes]]
    /\ nBatches = 1
    /\ nFaults = 0

\* the deep sync of one account with its retry loop, left alone
SpecRetry == InitRetry /\ [][\E w \in Workers : WorkerStep(w)]_vars

\* the queue with nothing submitted, or with the cover of an earlier run on disk
InitMedia ==
    /\ MergeInit /\ DelayInit /\ SyncQuiet /\ LockInit /\ LogInit
    /\ limits = [items |-> MaxItems, faults |-> MaxFaults]
    /\ mtasks = [t \in 1..NumCoverTasks |-> NewTask]
    /\ \E file \in {None_int, MinCoverBytes, MinCoverBytes + 1} :
          media = [file |-> file, cover_local |-> "",
                   stats |-> [submitted |-> 0, completed |-> 0, failed |-> 0],
                   gets |-> 0, good_gets |-> 0, callbacks |-> <<>>, overlap |-> FALSE]

\* the download queue and its cover tasks
SpecMedia == InitMedia /\ [][MediaNext]_vars


\* the download queue whose pool threads keep running their tasks
SpecMediaLive == InitMedia /\ [][MediaNext]_vars /\ WF_vars(MediaNext)

\* the run of the two batches: the notes of a list and the calls that go wrong
ReenterItems == 1
ReenterFaults == 1

\* start_sync(ids, mode) called while the thread of an earlier call may still
\* run (nothing in start_sync or in the REST handlers looks for one): the
\* handler puts the accounts back to pending, start_sync clears the stop flag
\* that every thread shares and starts the thread w
StartSyncAgain(w, ids) ==
    /\ wk[w].pc = "idle"
    /\ \E mode \in SyncModes :
          /\ accounts' = [a \in Accounts |->
                IF a \in Range(ids)
                THEN [accounts[a] EXCEPT !.status = "pending", !.progress = 0,
                                         !.error_message = NoError]
                ELSE accounts[a]]
          /\ wk' = [wk EXCEPT ![w] = [IdleWorker EXCEPT !.pc = "start",
                                        !.account_ids = ids, !.sync_mode = mode,
                                        !.committed = notes]]
    /\ stop_event' = FALSE
    /\ nBatches' = nBatches + 1
    /\ UNCHANGED <<notes, dm, cookie_valid, nFaults, mergeGhost, delayGhost, sideVars>>

\* start_sync([1], mode) was called and its thread w1 has not run yet; the
\* thread w2 of a second call does not exist yet
InitReenter ==
    /\ MergeInit /\ DelayInit /\ LockInit /\ LogInit /\ MediaInit
    /\ limits = [items |-> ReenterItems, faults |-> ReenterFaults]
    /\ accounts = [a \in Accounts |-> NewAccount]
    /\ cookie_valid = TRUE
    /\ stop_event = FALSE
    /\ \E mode \in SyncModes :
          wk = [w \in {"w1", "w2"} |->
                  IF w = "w1"
                  THEN [IdleWorker EXCEPT !.pc = "start", !.account_ids = <<1>>,
                                          !.sync_mode = mode, !.committed = notes]
                  ELSE IdleWorker]
    /\ nBatches = 1
    /\ nFaults = 0

\* a batch that is stopped while its thread runs, and a sync request for
\* another account that follows the stop
SpecReenter ==
    /\ InitReenter
    /\ [][\/ \E w \in {"w1", "w2"} : WorkerStep(w)
          \/ (Live("w1") /\ nBatches = 1 /\ StopSync)
          \/ (stop_event /\ StartSyncAgain("w2", <<2>>))]_vars
-----------------------------------------------------------------------------
(* Claims about the worker and the reaper *)

\* C1: when the thread of a sync request has ended (return, stop, auth abort,
\* or an exception caught by the guard of _run_sync), no account it moved to
\* processing is still processing.
C1_NoProcessingAtEnd ==
    \A w \in Workers :
        wk[w].pc = "done" =>
            \A a \in wk[w].claimed : accounts[a].status # "processing"

\* C6: once a fast sync has completed an account, every note of the list it
\* fetched is in the notes table.
C6_FastCompletedStored ==
    \A w \in Workers :
        wk[w].sync_mode = "fast" =>
            \A a \in wk[w].claimed :
                accounts[a].status = "completed" =>
                    \A i \in 1..accounts[a].total_msgs : notes[ItemId(a, i)] # NoRow

\* C7: a call of CleanupStale(timeout) fails, with the heartbeat-timeout
\* message and the heartbeat cleared, exactly the accounts that are processing
\* with no heartbeat or one older than the timeout; it returns their number and
\* leaves every other account as it was; a second call right after it finds
\* nothing to reap and returns 0.
C7_CleanupExact ==
    [][\A t \in ReapTimeouts :
         CleanupStale(t) =>
            LET stale == {a \in Accounts :
                            /\ accounts[a].status = "processing"
                            /\ \/ accounts[a].heartbeat_age = NoHeartbeat
                               \/ accounts[a].heartbeat_age > t}
            IN /\ \A a \in stale :
                     /\ accounts'[a].status = "failed"
                     /\ accounts'[a].error_message = Msg("heartbeat_timeout", 0)
                     /\ accounts'[a].heartbeat_age = NoHeartbeat
                     /\ \A f \in {"progress", "loaded_msgs", "total_msgs", "sync_logs"} :
                           accounts'[a][f] = accounts[a][f]
               /\ \A a \in Accounts \ stale : accounts'[a] = accounts[a]
               /\ cleaned_count(accounts, t) = Cardinality(stale)
               /\ cleaned_count(accounts', t) = 0
               /\ cleanup_stale_tasks(accounts', t) = accounts']_vars

\* the reaper has failed one account while another, processing with a
\* heartbeat inside the timeout, is as the worker left it
C7_Witness ==
    \E a, b \in Accounts :
        /\ accounts[a].status = "failed"
        /\ accounts[a].error_message = Msg("heartbeat_timeout", 0)
        /\ accounts[a].heartbeat_age = NoHeartbeat
        /\ accounts[b].status = "processing"
        /\ accounts[b].heartbeat_age = HEARTBEAT_TIMEOUT

\* C8: while a thread works on an account, the time it has slept since the
\* last heartbeat write never exceeds HEARTBEAT_TIMEOUT.
C8_HeartbeatGap ==
    \A w \in Workers : Live(w) => wk[w].slept <= HEARTBEAT_TIMEOUT

\* C9: every account that is processing is eventually completed or failed,
\* also when its thread died, as long as the clock and the reaper keep running.
C9_ProcessingEnds ==
    \A a \in Accounts :
        (accounts[a].status = "processing")
            ~> (accounts[a].status \in {"completed", "failed"})

\* C9, amended: every account that is processing is eventually completed or
\* failed, or a new sync request has put it back to pending.
C9_ProcessingLeaves ==
    \A a \in Accounts :
        (accounts[a].status = "processing")
            ~> (accounts[a].status \in {"completed", "failed", "pending"})

\* the process died on an account it had claimed, and the reaper failed it
C9_Witness ==
    \E w \in Workers : \E a \in wk[w].claimed :
        /\ wk[w].pc = "dead"
        /\ accounts[a].status = "failed"
        /\ accounts[a].error_message = Msg("heartbeat_timeout", 0)


\* C36: an account whose status is completed or failed keeps that status in
\* every later step, except the step of a new sync request that puts it back
\* to pending.
C36_TerminalAbsorbing ==
    [][\A a \in Accounts :
         accounts[a].status \in {"completed", "failed"} =>
            \/ accounts'[a].status = accounts[a].status
            \/ /\ nBatches' = nBatches + 1
               /\ accounts'[a].status = "pending"]_vars

\* C37: once stop_sync() was called while the thread of a batch ran, that
\* thread starts no further note and claims no further account, also when
\* start_sync is called for another batch before the thread looks at the
\* stop flag again (in this specification a second batch is started only
\* after a stop made while the first thread ran).
C37_StoppedWorkerStops ==
    [][nBatches = 2 =>
          /\ ~(/\ Item("w1")
               /\ wk'["w1"].pc \in {"detail", "progress"})
          /\ ~(/\ NextAccount("w1")
               /\ wk'["w1"].pc = "token")]_vars

\* C39: an account that is processing has 0 <= loaded_msgs <= total_msgs and
\* 0 <= progress <= 100 in every state, and the step of the worker that
\* sets an account to completed leaves it with total_msgs > 0, loaded_msgs =
\* total_msgs, progress = 100 and no heartbeat.
C39_ProgressBounds ==
    /\ [](\A a \in Accounts :
            accounts[a].status = "processing" =>
               /\ 0 <= accounts[a].loaded_msgs
               /\ accounts[a].loaded_msgs <= accounts[a].total_msgs
               /\ 0 <= accounts[a].progress
               /\ accounts[a].progress <= 100)
    /\ [][\A w \in Workers, a \in Accounts :
            (/\ WorkerStep(w)
             /\ accounts[a].status # "completed"
             /\ accounts'[a].status = "completed") =>
                /\ a = Cur(w)
                /\ accounts'[a].total_msgs > 0
                /\ accounts'[a].loaded_msgs = accounts'[a].total_msgs
                /\ accounts'[a].progress = 100
                /\ accounts'[a].heartbeat_age = NoHeartbeat]_vars

\* the first account of a batch is completed with both of its notes, the
\* second one is being processed with its list of two fetched and no note done
C39_Witness ==
    /\ accounts[1].status = "completed"
    /\ accounts[1].total_msgs = 2
    /\ accounts[1].loaded_msgs = 2
    /\ accounts[1].progress = 100
    /\ accounts[1].heartbeat_age = NoHeartbeat
    /\ accounts[2].status = "processing"
    /\ accounts[2].total_msgs = 2
    /\ accounts[2].loaded_msgs = 0
-----------------------------------------------------------------------------
(* Claims about the merge policy *)

ImgCount(row) == OldImgCount(row.image_list)

\* the data the last call carried for note id
Incoming(ls, id) == {ls.batch[i] : i \in {j \in 1..Len(ls.batch) : ls.batch[j].note_id = id}}

\* C2: an upsert replaces the stored image list of an existing note only by a
\* non-empty incoming list, and only when that list is strictly longer than the
\* stored one or the stored one has at most one entry; so a stored list of two
\* or more entries never becomes shorter.
C2_ImageListGuard ==
    [][\A id \in NoteIds :
         notes[id] # NoRow =>
            LET old == ImgCount(notes[id])
                new == ImgCount(notes'[id])
            IN /\ notes'[id].image_list # notes[id].image_list =>
                     /\ new > 0
                     /\ new > old \/ old <= 1
                     /\ \E d \in Incoming(lastSave', id) :
                           JsonDumps(d.image_list) = notes'[id].image_list
               /\ old >= 2 => new >= old]_vars

\* a stored list of three images has survived the write of a shorter non-empty list
C2_Witness ==
    /\ lastSave.op \in {"save", "bulk"}
    /\ notes["n1"] # NoRow
    /\ ImgCount(notes["n1"]) = MaxImgs
    /\ \E d \in Incoming(lastSave, "n1") :
          /\ Len(d.image_list) \in 1..(MaxImgs - 1)
          /\ JsonDumps(d.image_list) # notes["n1"].image_list
    /\ nSaves = MaxSaves

C3Fields == {"title", "nickname", "avatar", "desc", "type", "video_addr",
             "cover_remote", "xsec_token"}

\* C3: a write of list-page data to a note that a detail write populated leaves
\* every non-blank title, nickname, avatar, description, type, video address,
\* remote cover and access token non-blank.
C3_ListWriteKeepsFields ==
    [][\A id \in NoteIds :
         (/\ notes[id] # NoRow
          /\ id \in detailed
          /\ \A d \in Incoming(lastSave', id) : FromList(d))
         => \A f \in C3Fields : ~is_blank(notes[id][f]) => ~is_blank(notes'[id][f])]_vars

\* C4: an upsert of an existing note overwrites the stored publish time only by
\* a non-blank incoming value, and a non-blank stored publish time stays non-blank.
C4_UploadTimeOnlyNonBlank ==
    [][\A id \in NoteIds :
         notes[id] # NoRow =>
            /\ notes'[id].upload_time # notes[id].upload_time =>
                  \E d \in Incoming(lastSave', id) :
                     d.upload_time = notes'[id].upload_time /\ ~is_blank(d.upload_time)
            /\ ~is_blank(notes[id].upload_time) => ~is_blank(notes'[id].upload_time)]_vars

OtherCounters == {"collected_count", "comment_count", "share_count"}

\* C5: an upsert of an existing note whose incoming save, comment or share
\* counter is None leaves that stored counter unchanged; a stored counter
\* changes only to a non-None incoming value.
C5_NullCountersKeep ==
    [][\A id \in NoteIds : \A f \in OtherCounters :
         notes[id] # NoRow =>
            /\ (\A d \in Incoming(lastSave', id) : d[f] = None_int)
                  => notes'[id][f] = notes[id][f]
            /\ notes'[id][f] # notes[id][f] =>
                  \E d \in Incoming(lastSave', id) :
                     d[f] # None_int /\ d[f] = notes'[id][f]]_vars

\* a note with counters from a detail write has been upserted with list-page
\* data (None counters) and still carries them
C5_Witness ==
    /\ lastSave.op \in {"save", "bulk"}
    /\ ~lastSave.raised
    /\ nSaves = MaxSaves
    /\ notes["n1"] # NoRow
    /\ Incoming(lastSave, "n1") # {}
    /\ \A d \in Incoming(lastSave, "n1") : FromList(d)
    /\ notes["n1"].collected_count = 5
    /\ notes["n1"].comment_count = 6
    /\ notes["n1"].share_count = 7

-----------------------------------------------------------------------------
(* Claims about the delay manager *)

\* C10: every RecordRateLimit call leaves currentDelay at least as large as it
\* was and at most maxDelay, and strictly larger when it was below maxDelay.
C10_BackoffMonotone ==
    [][RecordRateLimit =>
         /\ dm'.current_delay >= dm.current_delay
         /\ dm'.current_delay <= dm.max_delay
         /\ dm.current_delay < dm.max_delay => dm'.current_delay > dm.current_delay]_vars

\* repeated rate limits have driven the delay to the cap, past a recovery
C10_Witness ==
    /\ dm.rate_limit_count >= 2
    /\ dm.current_delay = dm.max_delay
    /\ nDelayCalls = MaxDelayCalls


C24_ResetInitial ==
    [][Reset =>
         /\ dm'.current_delay = dm.initial_delay
         /\ dm'.consecutive_success = 0
         /\ dm'.rate_limit_count = 0
         /\ dm' = [dm EXCEPT !.current_delay = dm'.current_delay,
                             !.consecutive_success = dm'.consecutive_success,
                             !.rate_limit_count = dm'.rate_limit_count]
         /\ reset(dm') = dm']_vars

\* the manager is in its initial state after a wait was measured with the
\* delay at least doubled by rate limits: only reset() brings the count of
\* rate limits back to 0
C24_Witness ==
    /\ lastWait >= 4 * dm.initial_delay
    /\ dm.current_delay = dm.initial_delay
    /\ dm.consecutive_success = 0
    /\ dm.rate_limit_count = 0
    /\ successRun = <<>>
-----------------------------------------------------------------------------
(* Claims about the delay manager under concurrent calls *)

\* C12: whatever calls the threads interleave, currentDelay stays between
\* minDelay and maxDelay, and once no call is running the fields of the manager
\* are those the same calls give when run one after the other in the order in
\* which they entered (no update is lost).
C12_ThreadSafe ==
    /\ dm.min_delay <= dm.current_delay
    /\ dm.current_delay <= dm.max_delay
    /\ (\A t \in DelayThreads : dthreads[t].pc \in {"idle", "acquire"}) => dm = seqdm

\* two calls that write the fields have run while another thread was waiting
\* for the lock, and the counters show both
C12_Witness ==
    /\ \A t \in DelayThreads : dthreads[t].pc = "idle"
    /\ dm.rate_limit_count = 2
    /\ dm.consecutive_success = 1
    /\ dm = seqdm
    /\ nDelayCalls = MaxThreadCalls

-----------------------------------------------------------------------------
(* SyncLogCollector *)

\* C13: after any number n of add_issue calls the collector stores at most
\* 500 issues, and they are the first min(n, 500) issues in call order: past
\* the cap a new issue is dropped and no earlier one is evicted.
C13_IssueCap ==
    /\ Len(coll.issues) <= MaxIssues
    /\ coll.issues = SubSeq(collCalls.issues, 1, Min(Len(collCalls.issues), MaxIssues))
    /\ coll.log.issues = Len(coll.issues)

\* more issues were added than the cap holds, the last one of another type
C13_Witness ==
    /\ Len(collCalls.issues) = MaxIssues + 1
    /\ collCalls.issues[MaxIssues + 1].type = "fetch_failed"
    /\ Len(coll.issues) = MaxIssues
    /\ coll.issues[MaxIssues].type = "unavailable"

\* C14: for every issue type of the collector (auth_error included) the
\* summary holds a counter equal to the number of add_issue calls made with
\* that type, calls past the cap included; success and skipped equal the
\* numbers of record_success and record_skipped calls.  (A type the summary
\* has no key for reads as 0, as summary.get(type, 0) does.)
C14_CountersExact ==
    /\ \A type \in IssueTypes :
          (IF type \in DOMAIN coll.log THEN coll.log[type] ELSE 0)
             = Cardinality({i \in 1..Len(collCalls.issues) :
                              collCalls.issues[i].type = type})
    /\ coll.log.success = collCalls.success
    /\ coll.log.skipped = collCalls.skipped


\* C22: finalize() is an idempotent snapshot: two calls with no other call in
\* between return equal summary and issues (end_time is stamped again), and
\* what a returned dictionary holds is not changed by the add_issue,
\* record_success, record_skipped and set_total calls made after it.
C22_FinalizeSnapshot ==
    LET ret == collCalls.returned
    IN /\ \A i \in 1..Len(ret) :
             /\ read_logs(ret[i].logs, coll).summary = ret[i].logs.summary
             /\ read_logs(ret[i].logs, coll).issues = ret[i].logs.issues
       /\ \A i, j \in 1..Len(ret) :
             (i < j /\ ret[i].made = ret[j].made) =>
                /\ ret[i].logs.summary = ret[j].logs.summary
                /\ ret[i].logs.issues = ret[j].logs.issues
                /\ ret[i].logs.end_time < ret[j].logs.end_time

-----------------------------------------------------------------------------
(* Scenarios of the sync service *)

C16_AuthEndsBatch ==
    [][\A w \in Workers :
         WorkerStep(w) =>
            /\ wk'[w].auth_error => ~cookie_valid'
            /\ wk[w].auth_error => wk'[w].pc \notin {"token", "list", "info", "detail"}
            /\ (wk[w].pc # "start" /\ wk'[w].pc = "done" /\ ~cookie_valid'
                  /\ wk[w].acc <= Len(wk[w].account_ids)) =>
                  \A a \in {Cur(w)} \cup wk[w].remaining_ids :
                     /\ accounts'[a].status = "failed"
                     /\ accounts'[a].error_message = Msg("cookie_invalid", 0)]_vars

\* Scenario B is a deep sync of an account of 5 notes in which three calls go
\* wrong and no more, all of them rate limits of the detail fetch of note 3,
\* after notes 1 and 2 were fetched at once.  Its fallback is the step after
\* the third attempt; at its end one note has fallen back to the list data,
\* and it is note 3.

\* C17 as stated: in scenario B note 3 is persisted from list data, exactly
\* one missing_field issue is recorded, and the job ends completed with an
\* advisory message that reports 1 issue.
C17_OneIssueReported ==
    [][\A w \in Workers :
         /\ (/\ DetailEnd(w)
          /\ wk[w].total = 5 /\ wk[w].idx = 2
          /\ wk[w].attempt = 3 /\ wk[w].rate_limited /\ ~wk[w].detail_saved
          /\ nFaults = 3 /\ nFaults' = 3 /\ wk[w].log.rate_limited = 3
          /\ wk[w].log.missing_field = 0) =>
               /\ notes'[CurNote(w)] = SaveNoteInsert(ListData(CurNote(w)))
               /\ wk'[w].log.missing_field = 1
         /\ (/\ Finish(w)
          /\ wk[w].sync_mode = "deep" /\ ~stop_event /\ ~wk[w].auth_error
          /\ wk[w].total = 5 /\ wk[w].idx = 5
          /\ nFaults = 3 /\ wk[w].log.rate_limited = 3 /\ wk[w].log.missing_field = 1
          /\ notes[ItemId(Cur(w), 3)] = SaveNoteInsert(ListData(ItemId(Cur(w), 3)))) =>
               /\ accounts'[Cur(w)].status = "completed"
               /\ accounts'[Cur(w)].sync_logs.missing_field = 1
               /\ accounts'[Cur(w)].error_message = Msg("completed_with_issues", 1)]_vars

\* C17 (amended): in scenario B note 3 is persisted from list data, exactly
\* one missing_field issue and three rate_limited issues are recorded, and
\* the job ends completed with an advisory message that reports 4 issues:
\* the three rate limits and the missing field.
C17_IssuesReported ==
    [][\A w \in Workers :
         /\ (/\ DetailEnd(w)
          /\ wk[w].total = 5 /\ wk[w].idx = 2
          /\ wk[w].attempt = 3 /\ wk[w].rate_limited /\ ~wk[w].detail_saved
          /\ nFaults = 3 /\ nFaults' = 3 /\ wk[w].log.rate_limited = 3
          /\ wk[w].log.missing_field = 0) =>
               /\ notes'[CurNote(w)] = SaveNoteInsert(ListData(CurNote(w)))
               /\ wk'[w].log.missing_field = 1
               /\ wk'[w].log.rate_limited = 3
         /\ (/\ Finish(w)
          /\ wk[w].sync_mode = "deep" /\ ~stop_event /\ ~wk[w].auth_error
          /\ wk[w].total = 5 /\ wk[w].idx = 5
          /\ nFaults = 3 /\ wk[w].log.rate_limited = 3 /\ wk[w].log.missing_field = 1
          /\ notes[ItemId(Cur(w), 3)] = SaveNoteInsert(ListData(ItemId(Cur(w), 3)))) =>
               /\ accounts'[Cur(w)].status = "completed"
               /\ accounts'[Cur(w)].progress = 100
               /\ accounts'[Cur(w)].loaded_msgs = 5
               /\ accounts'[Cur(w)].sync_logs.missing_field = 1
               /\ accounts'[Cur(w)].sync_logs.rate_limited = 3
               /\ accounts'[Cur(w)].sync_logs.success = 4
               /\ accounts'[Cur(w)].error_message = Msg("completed_with_issues", 4)]_vars

\* scenario B has run to its end
C17_Witness ==
    /\ accounts[1].status = "completed"
    /\ accounts[1].total_msgs = 5
    /\ accounts[1].error_message = Msg("completed_with_issues", 4)
    /\ accounts[1].sync_logs # NoLogs
    /\ accounts[1].sync_logs.rate_limited = 3
    /\ accounts[1].sync_logs.missing_field = 1
    /\ accounts[1].sync_logs.success = 4
    /\ accounts[1].sync_logs.issues = 4
    /\ nFaults = 3
    /\ notes[ItemId(1, 3)] = SaveNoteInsert(ListData(ItemId(1, 3)))
    /\ notes[ItemId(1, 2)] = SaveNoteInsert(DetailData(ItemId(1, 2)))
    /\ notes[ItemId(1, 5)] = SaveNoteInsert(DetailData(ItemId(1, 5)))

\* C18: a deep sync of an account whose list holds n notes, none of them in
\* the store, and whose detail fetches all succeed at the first attempt ends
\* completed with loaded_msgs = n, progress 100, success = n in the summary,
\* no issue and no error message.
C18_CleanRunCompletes ==
    [][\A w \in Workers :
         (/\ Finish(w)
          /\ wk[w].sync_mode = "deep" /\ ~stop_event /\ ~wk[w].auth_error
          /\ nFaults = 0 /\ wk[w].cache = {}) =>
            /\ accounts'[Cur(w)].status = "completed"
            /\ accounts'[Cur(w)].loaded_msgs = wk[w].total
            /\ accounts'[Cur(w)].total_msgs = wk[w].total
            /\ accounts'[Cur(w)].progress = 100
            /\ accounts'[Cur(w)].sync_logs = [EmptyLog EXCEPT !.total = wk[w].total,
                                                              !.success = wk[w].total]
            /\ accounts'[Cur(w)].error_message = NoError
            /\ \A i \in 1..wk[w].total :
                  notes'[ItemId(Cur(w), i)] = SaveNoteInsert(DetailData(ItemId(Cur(w), i)))]_vars

\* the scenario with 10 notes has run to its end
C18_Witness ==
    /\ accounts[1].status = "completed"
    /\ accounts[1].total_msgs = 10
    /\ accounts[1].loaded_msgs = 10
    /\ accounts[1].progress = 100
    /\ accounts[1].error_message = NoError
    /\ accounts[1].sync_logs # NoLogs
    /\ accounts[1].sync_logs.success = 10
    /\ accounts[1].sync_logs.issues = 0
    /\ nFaults = 0
    /\ \A k \in 1..10 : notes[NoteNames[k]] # NoRow

-----------------------------------------------------------------------------
(* MediaDownloadQueue *)

\* C19 as stated: two cover tasks submitted for the same note and URL, each
\* of which ends with the path of the cover, make exactly one GET between
\* them when every GET succeeds with a file of valid size, whether they run
\* one after the other or on different threads of the pool.
C19_OneFetch ==
    (/\ \A t \in 1..NumCoverTasks : mtasks[t].pc = "done" /\ mtasks[t].local = CoverPath
     /\ media.gets = media.good_gets
     /\ media.gets > 0) =>
        media.gets = 1

\* C19 (amended): a cover task that finds a file of valid size at the path
\* of the cover returns the path without any GET; and two cover tasks
\* submitted for the same note and URL that run one after the other make
\* exactly one GET between them when every GET succeeds with a file of valid
\* size.  (Two tasks that run at the same time can both find no file and
\* both fetch.)
C19_FetchOnlyWithoutFile ==
    /\ \A t \in 1..NumCoverTasks :
          mtasks[t].skipped =>
             /\ mtasks[t].fetched = 0
             /\ mtasks[t].local = CoverPath
             /\ mtasks[t].pc \in {"callback", "done"}
    /\ (/\ \A t \in 1..NumCoverTasks : mtasks[t].pc = "done" /\ mtasks[t].local = CoverPath
        /\ media.gets = media.good_gets
        /\ media.gets > 0
        /\ ~media.overlap) =>
           /\ media.gets = 1
           /\ \E t \in 1..NumCoverTasks : mtasks[t].skipped

\* two tasks have run one after the other from an empty disk: the first
\* fetched the cover, the second found it
C19_Witness ==
    /\ \A t \in 1..NumCoverTasks : mtasks[t].pc = "done" /\ mtasks[t].local = CoverPath
    /\ ~media.overlap
    /\ media.gets = 1 /\ media.good_gets = 1
    /\ media.file = MinCoverBytes + 1
    /\ \E t \in 1..NumCoverTasks : mtasks[t].skipped
    /\ \E t \in 1..NumCoverTasks : mtasks[t].fetched = 1
    /\ media.stats.submitted = NumCoverTasks

\* C20: a cover task that ends with a path calls the callback exactly once,
\* with the note id and that path, and a task whose download failed does not
\* call it; a callback that runs without an app context raises nothing and
\* leaves the cover_local column as it is, and the task is counted completed.
C20_CallbackOnce ==
    [][\A t \in 1..NumCoverTasks :
         CoverCallback(t) =>
            /\ mtasks[t].local = None_str =>
                  /\ media'.callbacks = media.callbacks
                  /\ media'.cover_local = media.cover_local
            /\ mtasks[t].local # None_str =>
                  /\ Len(media'.callbacks) = Len(media.callbacks) + 1
                  /\ SubSeq(media'.callbacks, 1, Len(media.callbacks)) = media.callbacks
                  /\ LET call == media'.callbacks[Len(media'.callbacks)]
                     IN /\ call.task = t
                        /\ call.note_id = "n1"
                        /\ call.local_path = mtasks[t].local
                        /\ ~call.ctx =>
                              /\ media'.cover_local = media.cover_local
                              /\ media'.stats.completed = media.stats.completed + 1
                              /\ media'.stats.failed = media.stats.failed
            /\ \A u \in 1..NumCoverTasks :
                  Cardinality({i \in 1..Len(media'.callbacks) :
                                  media'.callbacks[i].task = u})
                     = IF mtasks'[u].pc = "done" /\ mtasks'[u].local # None_str THEN 1 ELSE 0]_vars

\* one task downloaded the cover and its callback ran without an app context,
\* the download of another failed
C20_Witness ==
    /\ \A t \in 1..NumCoverTasks : mtasks[t].pc = "done"
    /\ \E t \in 1..NumCoverTasks : mtasks[t].local = None_str /\ mtasks[t].fetched = CoverAttempts
    /\ Len(media.callbacks) = 1
    /\ ~media.callbacks[1].ctx
    /\ media.callbacks[1].local_path = CoverPath
    /\ media.cover_local = ""
    /\ media.stats.completed = NumCoverTasks
    /\ media.stats.failed = 0


\* C21: after the cover download of a stored item has succeeded, the
\* cover_local of the item's row eventually equals the downloaded local path.
\* The callback of the pool thread finds no app context and returns without
\* the update, so the row can keep its empty cover_local for ever.
C21_CoverLocalStored ==
    \A t \in 1..NumCoverTasks :
       (mtasks[t].pc = "done" /\ mtasks[t].local = CoverPath /\ ~mtasks[t].skipped)
          ~> (media.cover_local = CoverPath)

\* C40: at every moment the statistics of the queue satisfy completed +
\* failed <= submitted, however the submitting thread and the threads of the
\* pool interleave, and once every submit call has returned and every task
\* handed to the pool has finished, completed + failed = submitted and
\* pending = 0.
C40_StatsConsistent ==
    /\ media.stats.completed + media.stats.failed <= media.stats.submitted
    /\ (\A t \in 1..NumCoverTasks :
           \/ mtasks[t].pc \in {"new", "dropped"}
           \/ mtasks[t].pc = "done" /\ mtasks[t].counted) =>
          /\ media.stats.completed + media.stats.failed = media.stats.submitted
          /\ pending(mtasks) = 0
-----------------------------------------------------------------------------
(* The note loop of the worker *)

\* C25: in fast sync no detail fetch is issued and the worker never sleeps:
\* no step of a fast batch enters the detail retry loop or its end, adds to
\* the time slept, or lets the heartbeats age.
C25_FastNeverSleeps ==
    [][\A w \in Workers :
         (wk'[w].sync_mode = "fast" /\ WorkerStep(w)) =>
            /\ wk'[w].pc \notin {"detail", "detail_end"}
            /\ wk'[w].slept <= wk[w].slept
            /\ wk'[w].log.success = wk[w].log.success \/ wk'[w].log = EmptyLog
            /\ \A a \in Accounts :
                  accounts'[a].heartbeat_age
                     \in {accounts[a].heartbeat_age, 0, NoHeartbeat}]_vars

\* a fast batch has gone through every note of an account and completed it
C25_Witness ==
    \E w \in Workers :
       /\ wk[w].sync_mode = "fast"
       /\ wk[w].pc = "done"
       /\ wk[w].slept = 0
       /\ \E a \in Accounts :
             /\ a \in Range(wk[w].account_ids)
             /\ accounts[a].status = "completed"
             /\ accounts[a].loaded_msgs >= 2

\* C26: every note whose detail fetch was attempted and did not end in a
\* saved detail gets exactly one missing_field issue and is then stored from
\* its list data, so that a row of the note exists once the note has been
\* processed; a note whose detail was saved gets no missing_field issue.
C26_FallbackPersists ==
    [][\A w \in Workers :
         (wk[w].pc = "detail_end" /\ WorkerStep(w)) =>
            IF wk[w].detail_saved
            THEN wk'[w].log.missing_field = wk[w].log.missing_field
            ELSE /\ wk'[w].log.missing_field = wk[w].log.missing_field + 1
                 /\ notes'[CurNote(w)] # NoRow
                 /\ notes'[CurNote(w)].title = ListData(CurNote(w)).title]_vars

\* C27: at most 3 detail fetches are issued for a note in one run, and none
\* once a fetch of the note has succeeded and been saved: the worker is in the
\* retry loop only with fewer than 3 fetches issued and no saved detail, every
\* fetch counts, the loop is entered from the head of the note loop only, and
\* after it the worker moves on to the next note.
C27_AttemptCap ==
    [][\A w \in Workers :
         WorkerStep(w) =>
            /\ wk'[w].pc = "detail" =>
                  /\ wk'[w].attempt < DetailAttempts
                  /\ ~wk'[w].detail_saved
            /\ (wk[w].pc = "detail" /\ wk'[w].pc \in {"detail", "detail_end"}) =>
                  /\ wk'[w].attempt = wk[w].attempt + 1
                  /\ wk'[w].idx = wk[w].idx
                  /\ wk'[w].acc = wk[w].acc
            /\ (wk[w].pc # "detail" /\ wk'[w].pc = "detail") =>
                  /\ wk[w].pc = "item"
                  /\ wk'[w].attempt = 0
            /\ wk[w].pc = "detail_end" => wk'[w].pc = "progress"
            /\ (wk[w].pc = "progress" /\ wk'[w].pc = "item") =>
                  wk'[w].idx = wk[w].idx + 1]_vars

\* three fetches of a note were rate limited and the retry loop has ended
\* without a saved detail
C27_Witness ==
    \E w \in Workers :
       /\ wk[w].pc = "detail_end"
       /\ wk[w].attempt = DetailAttempts
       /\ wk[w].log.rate_limited = DetailAttempts
       /\ ~wk[w].detail_saved

\* C28 as stated: a detail fetch that fails with a generic error is retried
\* while the cap of 3 attempts is not exhausted.
C28_GenericRetried ==
    [][\A w \in Workers :
         (/\ DetailAttempt(w)
          /\ wk'[w].log.fetch_failed = wk[w].log.fetch_failed + 1
          /\ notes' = notes
          /\ wk[w].attempt + 1 < DetailAttempts) =>
               wk'[w].pc = "detail"]_vars

\* C28 (amended): a detail fetch that fails with a generic error is not
\* retried: one fetch_failed issue is recorded, the retry loop ends with that
\* attempt whatever its number, no delay is recorded, and the end of the loop
\* then records the missing_field issue of the fallback to the list data.
C28_GenericEndsLoop ==
    [][\A w \in Workers :
         /\ (/\ DetailAttempt(w)
             /\ wk'[w].log.fetch_failed = wk[w].log.fetch_failed + 1
             /\ notes' = notes) =>
               /\ wk'[w].pc = "detail_end"
               /\ wk'[w].attempt = wk[w].attempt + 1
               /\ ~wk'[w].detail_saved
               /\ wk'[w].log.issues = wk[w].log.issues + 1
               /\ wk'[w].log.missing_field = wk[w].log.missing_field
               /\ dm' = dm
         /\ (DetailEnd(w) /\ ~wk[w].detail_saved) =>
               /\ wk'[w].log.missing_field = wk[w].log.missing_field + 1
               /\ wk'[w].pc = "progress"]_vars

\* the first fetch of a note failed with a generic error and the retry loop
\* has ended
C28_Witness ==
    \E w \in Workers :
       /\ wk[w].pc = "detail_end"
       /\ wk[w].attempt = 1
       /\ wk[w].log.fetch_failed = 1
       /\ wk[w].log.issues = 1
       /\ ~wk[w].rate_limited
       /\ ~wk[w].detail_saved
       /\ notes[CurNote(w)] = NoRow

\* C29: every detail fetch answered as rate limited is followed, before the
\* next fetch of the note, by one record_rate_limit() call, one rate_limited
\* issue and one get_rate_limit_wait() sleep, so that the rate_limited issues
\* of a job are as many as its record_rate_limit calls.
C29_RateLimitRecorded ==
    [][\A w \in Workers :
         DetailAttempt(w) =>
            /\ wk'[w].log.rate_limited - wk[w].log.rate_limited
                  = dm'.rate_limit_count - dm.rate_limit_count
            /\ wk'[w].log.rate_limited > wk[w].log.rate_limited =>
                  wk'[w].slept >= Min(wk[w].slept
                                         + SecOf(get_rate_limit_wait(dm', LowDraw.rnd)),
                                      AgeCap)]_vars

C31_StatedComplete(row) ==
    /\ \A f \in {"note_id", "user_id", "nickname", "avatar", "title"} : ~is_blank(row[f])
    /\ row.desc # None_str
    /\ ~is_blank(row.upload_time)
    /\ \A c \in {"liked_count", "collected_count", "comment_count", "share_count"} :
          row[c] # None_int
    /\ ~is_blank(row.cover_remote) /\ ~is_blank(row.cover_local)
    /\ IF row.type = "video" THEN ~is_blank(row.video_addr)
       ELSE OldImgCount(row.image_list) > 1
    /\ row.note_id \in MediaFiles

\* C31: the completeness check reports a stored note complete (no missing
\* required field) if and only if its text fields and publish time are not
\* blank, its four counters are not null, both cover fields are not blank, its
\* type's media is present and its local media is on disk.
C31_CompleteIffStated ==
    \A w \in Workers :
       (/\ wk[w].pc = "item"
        /\ wk[w].idx < wk[w].total
        /\ notes[CurNote(w)] # NoRow) =>
           (_get_missing_required_fields(notes[CurNote(w)]) = {}
              <=> C31_StatedComplete(notes[CurNote(w)]))

C33_CompletedWithAdvisory ==
    [][\A w \in Workers :
         (/\ Finish(w)
          /\ wk[w].sync_mode = "deep"
          /\ ~wk[w].auth_error
          /\ ~stop_event) =>
             LET a == Cur(w)
                 n == wk[w].log.rate_limited + wk[w].log.missing_field
                      + wk[w].log.fetch_failed
             IN /\ wk[w].idx = wk[w].total
                /\ accounts'[a].status = "completed"
                /\ accounts'[a].error_message =
                      IF n > 0 THEN Msg("completed_with_issues", n) ELSE NoError]_vars

\* C34: when get_user_all_notes succeeds with an empty list, one retry with a
\* newly fetched token decides: the list of the retry is taken when a new
\* token was obtained and the retry succeeds with notes, and in every other
\* case the list stays empty; an account whose list stays empty is set to
\* failed with total_msgs = 0, loaded_msgs = 0 and progress = 0, the worker
\* goes on with the next account, and the account is never set to completed.
C34_EmptyListFails ==
    /\ [](\A mode \in SyncModes, o1 \in ListOutcomes, nt1 \in BOOLEAN,
             o2 \in ListOutcomes, nt2 \in BOOLEAN, o3 \in ListOutcomes :
             LET first == IF o1 = "token" /\ mode = "deep" /\ nt1 THEN o2 ELSE o1
             IN first = "empty" =>
                   ListFinal(mode, o1, nt1, o2, nt2, o3) =
                      IF nt2 /\ o3 = "ok" THEN "ok" ELSE "empty")
    /\ [][\A w \in Workers :
            (ListFetch(w) /\ accounts'[Cur(w)].error_message = Msg("empty_list", 0)) =>
               /\ accounts' = [accounts EXCEPT ![Cur(w)] =
                     [@ EXCEPT !.status = "failed",
                               !.error_message = Msg("empty_list", 0),
                               !.total_msgs = 0, !.loaded_msgs = 0, !.progress = 0]]
               /\ wk'[w].pc = "next_account"
               /\ wk'[w].acc = wk[w].acc + 1
               /\ notes' = notes]_vars
    /\ [](\A a \in Accounts :
            accounts[a].error_message = Msg("empty_list", 0) =>
               /\ accounts[a].status = "failed"
               /\ accounts[a].total_msgs = 0
               /\ accounts[a].loaded_msgs = 0
               /\ accounts[a].progress = 0)

\* the first account of a batch of two failed on its empty list and the
\* worker completed the second
C34_Witness ==
    /\ accounts[1].status = "failed"
    /\ accounts[1].error_message = Msg("empty_list", 0)
    /\ accounts[1].total_msgs = 0
    /\ accounts[2].status = "completed"
    /\ \E w \in Workers : wk[w].pc = "done"

\* C35: a detail attempt that records a fetch_failed issue (the fetch failed,
\* or the save of the fetched note raised) leaves the worker in the retry loop
\* of the same note with the account untouched apart from the time that
\* passed; the end of the retry loop, whether the fallback save raises or
\* not, leads to the progress step, and the progress step to the next note
\* of the list.  An exception caught by the `except` of the account loop
\* sets that account alone to failed with its heartbeat cleared, and the
\* worker goes on with the next account of the batch.
C35_FailuresStayLocal ==
    [][\A w \in Workers :
         LET a == Cur(w)
         IN /\ (DetailAttempt(w) /\ wk'[w].log.fetch_failed = wk[w].log.fetch_failed + 1)
                  => /\ wk'[w].pc \in {"detail", "detail_end"}
                     /\ wk'[w].idx = wk[w].idx
                     /\ wk'[w].acc = wk[w].acc
                     /\ \A b \in Accounts : accounts'[b].status = accounts[b].status
                     /\ stop_event' = stop_event
            /\ DetailEnd(w)
                  => /\ wk'[w].pc = "progress"
                     /\ wk'[w].idx = wk[w].idx
                     /\ \A b \in Accounts : accounts'[b].status = accounts[b].status
            /\ Progress(w)
                  => /\ wk'[w].pc = "item"
                     /\ wk'[w].idx = wk[w].idx + 1
                     /\ wk'[w].acc = wk[w].acc
            /\ AccountException(w)
                  => /\ accounts'[a].status = "failed"
                     /\ accounts'[a].error_message = Msg("sync_error", 0)
                     /\ accounts'[a].heartbeat_age = NoHeartbeat
                     /\ \A b \in Accounts \ {a} : accounts'[b] = accounts[b]
                     /\ wk'[w].pc = "next_account"
                     /\ wk'[w].acc = wk[w].acc + 1
                     /\ stop_event' = stop_event]_vars

\* the first account of a batch failed on an exception; the second one was
\* claimed afterwards, had the detail fetch of one note fail, went on to
\* the note after it and completed
C35_Witness ==
    /\ accounts[1].status = "failed"
    /\ accounts[1].error_message = Msg("sync_error", 0)
    /\ accounts[2].status = "completed"
    /\ accounts[2].sync_logs # NoLogs
    /\ accounts[2].sync_logs.fetch_failed = 1
    /\ accounts[2].sync_logs.success = 1
    /\ accounts[2].loaded_msgs = 2

=============================================================================
